---------------------------- MODULE Spec2Model ----------------------------
(***************************************************************************)
(* A model of hensan, a grammar-driven source-to-source transpiler:       *)
(*   src/src/parser.rs     the backtracking input parser (small-step),     *)
(*   src/src/generator.rs  the tree-directed generator (operators),        *)
(*   src/src/ast.rs        the AST node,                                   *)
(*   src/src/main.rs       the built-in grammar pair.                      *)
(*                                                                         *)
(* Text is a sequence of one-character strings; positions are 0-based      *)
(* offsets as in the Rust code (input[pos..] is SubSeq(input, pos+1, n)).  *)
(* Rule names are atomic strings.  A grammar is the object the meta-parser *)
(* builds (meta_parser.rs GrammarExpr / OutputExpr).                       *)
(***************************************************************************)
EXTENDS Integers, Sequences, FiniteSets, TLC

VARIABLES
    grammar,              \* Parser.grammar: [rules, start_rule]
    out_grammar,          \* Generator.grammar: [rules]
    input,                \* Parser.input
    pos,                  \* Parser.pos
    furthest_pos,         \* Parser.furthest_pos
    furthest_expected,    \* Parser.furthest_expected
    furthest_rule,        \* Parser.furthest_rule
    indent_stack,         \* Parser.indent_stack
    pending_dedents,      \* Parser.pending_dedents
    at_line_start,        \* Parser.at_line_start
    current_line_indent,  \* Parser.current_line_indent
    stack,                \* the call stack of parse_rule / parse_expr activations
    ret,                  \* the value the last finished activation returned
    phase,                \* position in main(): "parse", "run", "finish", "generate", "done"
    outcome,              \* which arm of parse()'s match was taken
    ast,                  \* the Ok(ast) of parse()
    error,                \* the Err(ParseError) of parse()
    output,               \* Generator::generate's string
    max_ok_pos,           \* history: the largest pos at which an activation returned Some
    bnf,                  \* MetaParser.input: the text of a grammar
    meta                  \* what parse_input_grammar / parse_output_grammar gave for bnf

vars == <<grammar, out_grammar, input, pos, furthest_pos,
          furthest_expected, furthest_rule, indent_stack, pending_dedents,
          at_line_start, current_line_indent, stack, ret, phase, outcome,
          ast, error, output, max_ok_pos, bnf, meta>>

---------------------------------------------------------------------------
(* Text helpers *)

Max(a, b) == IF a >= b THEN a ELSE b

\* the least element of a set of numbers
Least(S) == CHOOSE i \in S : \A j \in S : i <= j

\* `let x = v;` then f(x): v is computed once
With(v, f(_)) == CHOOSE y \in {f(x) : x \in {v}} : TRUE

\* &s[from..]  (0-based byte offset)
Suffix(s, from) == SubSeq(s, from + 1, Len(s))

\* &s[from..to]
Slice(s, from, to) == SubSeq(s, from + 1, to)

\* str::starts_with
starts_with(s, prefix) ==
    /\ Len(prefix) <= Len(s)
    /\ SubSeq(s, 1, Len(prefix)) = prefix

\* Vec::contains
Contains(seq, x) == \E i \in 1..Len(seq) : seq[i] = x

\* str::trim().is_empty(): only white space
IsBlank(s) == \A i \in 1..Len(s) : s[i] \in {" ", "\t", "\r", "\n"}

\* str::replace of the two-character escape `\c` by the character `to`
RECURSIVE replace_escape(_, _, _)
replace_escape(s, c, to) ==
    IF Len(s) = 0 THEN <<>>
    ELSE IF Len(s) >= 2 /\ s[1] = "\\" /\ s[2] = c
         THEN <<to>> \o replace_escape(SubSeq(s, 3, Len(s)), c, to)
         ELSE <<s[1]>> \o replace_escape(SubSeq(s, 2, Len(s)), c, to)

\* lit.replace("\\n", "\n").replace("\\t", "\t").replace("\\r", "\r")
expand_escapes(s) ==
    replace_escape(replace_escape(replace_escape(s, "n", "\n"), "t", "\t"), "r", "\r")

---------------------------------------------------------------------------
(* ast.rs *)

ASTNode_new(name) == [name |-> name, value |-> <<>>, children |-> <<>>]

with_value(name, value) == [name |-> name, value |-> value, children |-> <<>>]

\* children.entry(name).or_default().push(c)
push_child(children, name, c) ==
    IF name \in DOMAIN children
    THEN [children EXCEPT ![name] = Append(@, c)]
    ELSE children @@ (name :> <<c>>)

add_child(node, child) ==
    [node EXCEPT !.children = push_child(@, child.name, child)]

get_children(node, name) ==
    IF name \in DOMAIN node.children THEN node.children[name] ELSE <<>>

\* Option<&ASTNode>: the first child of that name, if any
has_child(node, name) == Len(get_children(node, name)) > 0
get_child(node, name) == get_children(node, name)[1]

\* node names the parser makes itself: name.starts_with('_')
InternalNames == {"_literal", "_pattern", "_repeat", "_group", "_indent",
                  "_dedent", "_newline", "_same_indent", "_optional_empty"}
IsInternal(name) == name \in InternalNames

\* for (name, children) in from.children { for c in children { push } }
RECURSIVE push_all(_, _, _, _)
push_all(children, name, cs, i) ==
    IF i > Len(cs) THEN children
    ELSE push_all(push_child(children, name, cs[i]), name, cs, i + 1)

\* The keys of a HashMap in one order.  Each key has its own bucket, so the
\* order in which buckets are copied does not show in the result.
RECURSIVE Keys(_)
Keys(S) ==
    IF S = {} THEN <<>>
    ELSE LET x == CHOOSE x \in S : TRUE IN <<x>> \o Keys(S \ {x})

RECURSIVE splice_names(_, _, _, _)
splice_names(children, from, order, i) ==
    IF i > Len(order) THEN children
    ELSE splice_names(push_all(children, order[i], from[order[i]], 1),
                      from, order, i + 1)

splice_children(node, child) ==
    [node EXCEPT !.children =
        splice_names(@, child.children, Keys(DOMAIN child.children), 1)]

---------------------------------------------------------------------------
(* Regular expressions (the regex crate, as far as the grammars here use it) *)
(*                                                                         *)
(* A pattern is [src, alts]: src is the pattern string, alts its top-level *)
(* alternatives, each a sequence of atoms [cls, q]: a character class and  *)
(* a quantifier "1", "?", "*" or "+".  Quantifiers are greedy and          *)
(* alternation is leftmost-first, as in the regex crate.                   *)

Atom(cls, q) == [cls |-> cls, q |-> q]

\* the longest run of characters of cls in text from offset i
RECURSIVE RunLen(_, _, _)
RunLen(cls, text, i) ==
    IF i < Len(text) /\ text[i + 1] \in cls THEN 1 + RunLen(cls, text, i + 1) ELSE 0

\* the end offset of the preferred match of atoms[k..] at offset i, or -1
RECURSIVE MatchAtoms(_, _, _, _)
RECURSIVE MatchRep(_, _, _, _, _, _)
MatchAtoms(atoms, k, text, i) ==
    IF k > Len(atoms) THEN i
    ELSE LET a == atoms[k]
             run == RunLen(a.cls, text, i)
         IN  CASE a.q = "1" -> IF run >= 1 THEN MatchAtoms(atoms, k + 1, text, i + 1) ELSE -1
               [] a.q = "?" -> MatchRep(atoms, k, text, i, IF run >= 1 THEN 1 ELSE 0, 0)
               [] a.q = "*" -> MatchRep(atoms, k, text, i, run, 0)
               [] a.q = "+" -> MatchRep(atoms, k, text, i, run, 1)
MatchRep(atoms, k, text, i, n, min) ==
    IF n < min THEN -1
    ELSE LET r == MatchAtoms(atoms, k + 1, text, i + n)
         IN  IF r >= 0 THEN r ELSE MatchRep(atoms, k, text, i, n - 1, min)

\* Regex::new(&format!("^{}", pattern)): the `^` is prefixed to the pattern
\* text, so it belongs to the first top-level alternative only.
anchored_regex(pattern) ==
    [j \in 1..Len(pattern.alts) |->
        [anchored |-> (j = 1), atoms |-> pattern.alts[j]]]

\* the first alternative of re, from j on, that matches text at offset s
RECURSIVE MatchAlts(_, _, _, _)
MatchAlts(re, j, text, s) ==
    IF j > Len(re) THEN [found |-> FALSE, start |-> s, end |-> s]
    ELSE LET r == IF re[j].anchored /\ s > 0 THEN -1
                  ELSE MatchAtoms(re[j].atoms, 1, text, s)
         IN  IF r >= 0 THEN [found |-> TRUE, start |-> s, end |-> r]
             ELSE MatchAlts(re, j + 1, text, s)

\* Regex::find: the leftmost match in text, from offset s on
RECURSIVE regex_find(_, _, _)
regex_find(re, text, s) ==
    IF s > Len(text) THEN [found |-> FALSE, start |-> s, end |-> s]
    ELSE LET m == MatchAlts(re, 1, text, s)
         IN  IF m.found THEN m ELSE regex_find(re, text, s + 1)

---------------------------------------------------------------------------
(* parser.rs: the cursor state and the terminals, as functions of the cursor *)

Cursor == [pos |-> pos, indent_stack |-> indent_stack,
           pending_dedents |-> pending_dedents,
           at_line_start |-> at_line_start,
           current_line_indent |-> current_line_indent]

Err == [furthest_pos |-> furthest_pos, furthest_expected |-> furthest_expected,
        furthest_rule |-> furthest_rule]

TabWidth == 8

\* the indent of the white space at offset p: the loop of update_line_indent
RECURSIVE indent_from(_, _, _)
indent_from(src, p, indent) ==
    IF p < Len(src) /\ src[p + 1] = " " THEN indent_from(src, p + 1, indent + 1)
    ELSE IF p < Len(src) /\ src[p + 1] = "\t"
         THEN indent_from(src, p + 1, ((indent \div TabWidth) + 1) * TabWidth)
         ELSE indent

update_line_indent(src, c) ==
    IF ~c.at_line_start THEN c
    ELSE [c EXCEPT !.current_line_indent = indent_from(src, c.pos, 0)]

\* a recorder that keeps the failure seen last
record_latest(e, p, expected, context_rule) ==
    [furthest_pos |-> p, furthest_expected |-> <<expected>>,
     furthest_rule |-> context_rule]

record_error(e, p, expected, context_rule) ==
    IF p > e.furthest_pos
    THEN [furthest_pos |-> p, furthest_expected |-> <<expected>>,
          furthest_rule |-> context_rule]
    ELSE IF p = e.furthest_pos
         THEN [e EXCEPT !.furthest_expected =
                  IF Contains(@, expected) THEN @ ELSE Append(@, expected)]
         ELSE e

\* the position after the ' ', '\t' and '\r' at offset p
RECURSIVE skip_from(_, _)
skip_from(src, p) ==
    IF p < Len(src) /\ src[p + 1] \in {" ", "\t", "\r"} THEN skip_from(src, p + 1)
    ELSE p

skip_whitespace_no_newline(src, c) == [c EXCEPT !.pos = skip_from(src, c.pos)]

Top(stk) == stk[Len(stk)]
last(stk) == IF Len(stk) > 0 THEN stk[Len(stk)] ELSE 0
pop(stk) == IF Len(stk) > 0 THEN SubSeq(stk, 1, Len(stk) - 1) ELSE stk

\* What a terminal returns: Some(node) or None, the cursor it leaves, and the
\* expected-string it records on failure.
Some(c, node) == [ok |-> TRUE, c |-> c, node |-> node, expected |-> <<>>]
None(c, expected) == [ok |-> FALSE, c |-> c, node |-> ASTNode_new(""), expected |-> expected]

\* an INDENT that also takes a line indented as the block around it
parse_indent_or_same(src, c) ==
    IF c.pending_dedents > 0 THEN None(c, <<"I", "N", "D", "E", "N", "T">>)
    ELSE IF c.current_line_indent >= last(c.indent_stack)
         THEN LET c1 == [c EXCEPT !.indent_stack = Append(@, c.current_line_indent)]
                  c2 == skip_whitespace_no_newline(src, c1)
              IN  Some([c2 EXCEPT !.at_line_start = FALSE], with_value("_indent", <<>>))
         ELSE None(c, <<"I", "N", "D", "E", "N", "T">>)

parse_indent(src, c) ==
    IF c.pending_dedents > 0 THEN None(c, <<"I", "N", "D", "E", "N", "T">>)
    ELSE IF c.current_line_indent > last(c.indent_stack)
         THEN LET c1 == [c EXCEPT !.indent_stack = Append(@, c.current_line_indent)]
                  c2 == skip_whitespace_no_newline(src, c1)
              IN  Some([c2 EXCEPT !.at_line_start = FALSE], with_value("_indent", <<>>))
         ELSE None(c, <<"I", "N", "D", "E", "N", "T">>)

\* a count that takes the level just popped along with those still above the
\* line's indent
extra_dedents_and_popped(test_stack, indent) ==
    1 + Cardinality({i \in 1..Len(test_stack) : test_stack[i] > indent})

\* a count that takes every level above the base, whatever the line's indent
levels_above_base(test_stack, indent) == Len(test_stack) - 1

\* the while loop of parse_dedent: levels of test_stack above the line's indent
RECURSIVE extra_dedents(_, _)
extra_dedents(test_stack, indent) ==
    IF Len(test_stack) > 1 /\ ~(indent >= last(test_stack))
    THEN 1 + extra_dedents(pop(test_stack), indent)
    ELSE 0

parse_dedent(src, c) ==
    IF c.pending_dedents > 0
    THEN Some([c EXCEPT !.pending_dedents = @ - 1, !.indent_stack = pop(@)],
              with_value("_dedent", <<>>))
    ELSE IF c.current_line_indent < last(c.indent_stack)
         THEN LET popped == pop(c.indent_stack)
                  c1 == [c EXCEPT !.indent_stack = popped]
              IN  Some(IF c.current_line_indent < last(popped)
                       THEN [c1 EXCEPT !.pending_dedents =
                                extra_dedents(popped, c.current_line_indent)]
                       ELSE c1,
                       with_value("_dedent", <<>>))
         ELSE None(c, <<"D", "E", "D", "E", "N", "T">>)

\* the position after one line break at offset p, or p when there is none
after_line_break(src, p) ==
    IF starts_with(Suffix(src, p), <<"\n">>) THEN p + 1
    ELSE IF starts_with(Suffix(src, p), <<"\r", "\n">>) THEN p + 2
    ELSE p

\* a Newline that stops after its one line break
keep_blank_lines(src, line_start) == line_start

\* the loop of parse_newline: skip the blank lines at line_start
RECURSIVE skip_blank_lines(_, _)
skip_blank_lines(src, line_start) ==
    With(skip_from(src, line_start), LAMBDA p :
        With(after_line_break(src, p), LAMBDA q :
            IF q > p THEN skip_blank_lines(src, q) ELSE line_start))

parse_newline(src, c) ==
    With(skip_from(src, c.pos), LAMBDA p :
        With(after_line_break(src, p), LAMBDA q :
            IF q = p
            THEN None([c EXCEPT !.pos = p], <<"N", "E", "W", "L", "I", "N", "E">>)
            ELSE Some(update_line_indent(src,
                          [c EXCEPT !.pos = skip_blank_lines(src, q),
                                    !.at_line_start = TRUE]),
                      with_value("_newline", <<"\n">>))))

parse_same_indent(src, c) ==
    IF c.current_line_indent = last(c.indent_stack)
    THEN Some([skip_whitespace_no_newline(src, c) EXCEPT !.at_line_start = FALSE],
              with_value("_same_indent", <<>>))
    ELSE None(c, <<"S", "A", "M", "E", "_", "I", "N", "D", "E", "N", "T">>)

\* a literal that leaves the start of the line also when it does not match
parse_literal_leaving_line(src, c, lit) ==
    LET c1 == skip_whitespace_no_newline(src, c)
    IN  IF starts_with(Suffix(src, c1.pos), lit)
        THEN Some([c1 EXCEPT !.pos = @ + Len(lit), !.at_line_start = FALSE],
                  with_value("_literal", lit))
        ELSE None([c1 EXCEPT !.at_line_start = FALSE], <<"\"">> \o lit \o <<"\"">>)

parse_literal(src, c, lit) ==
    LET c1 == skip_whitespace_no_newline(src, c)
    IN  IF starts_with(Suffix(src, c1.pos), lit)
        THEN Some([c1 EXCEPT !.pos = @ + Len(lit), !.at_line_start = FALSE],
                  with_value("_literal", lit))
        ELSE None(c1, <<"\"">> \o lit \o <<"\"">>)

parse_pattern(src, c, pattern) ==
    LET c1 == skip_whitespace_no_newline(src, c)
        rem == Suffix(src, c1.pos)
        m == regex_find(anchored_regex(pattern), rem, 0)
        matched == Slice(rem, m.start, m.end)
    IN  IF m.found
        THEN Some([c1 EXCEPT !.pos = @ + Len(matched), !.at_line_start = FALSE],
                  with_value("_pattern", matched))
        ELSE None(c1, <<"p", "a", "t", "t", "e", "r", "n", " ", "/">>
                      \o pattern.src \o <<"/">>)

---------------------------------------------------------------------------
(* meta_parser.rs: GrammarExpr *)

Literal(s)      == [t |-> "Literal", s |-> s]
Pattern(p)      == [t |-> "Pattern", pattern |-> p]
RuleRef(name)   == [t |-> "RuleRef", name |-> name]
Sequence(items) == [t |-> "Sequence", items |-> items]
Choice(choices) == [t |-> "Choice", items |-> choices]
ZeroOrMore(e)   == [t |-> "ZeroOrMore", inner |-> e]
OneOrMore(e)    == [t |-> "OneOrMore", inner |-> e]
Optional(e)     == [t |-> "Optional", inner |-> e]
Group(e)        == [t |-> "Group", inner |-> e]
Indent          == [t |-> "Indent"]
Dedent          == [t |-> "Dedent"]
Newline         == [t |-> "Newline"]
SameIndent      == [t |-> "SameIndent"]

InputRule(name, expr) == [name |-> name, expr |-> expr]

---------------------------------------------------------------------------
(* parser.rs: parse_rule and parse_expr, one activation per stack frame.   *)
(* A frame holds the expression, the context rule, the locals of the       *)
(* function (i, node, the start_* snapshot, start_pos) and, as history,    *)
(* the cursor at the call (entry).                                         *)

\* Parser::new: the cursor of a new parser
NewCursor == [pos |-> 0, indent_stack |-> <<0>>, pending_dedents |-> 0,
              at_line_start |-> TRUE, current_line_indent |-> 0]

NoRet == [set |-> FALSE, ok |-> FALSE, node |-> ASTNode_new(""), t |-> "",
          entry |-> NewCursor, from |-> NewCursor]

Frame(e, ctx, c) ==
    [e |-> e, ctx |-> ctx, pc |-> "enter", i |-> 0, node |-> ASTNode_new(""),
     snap |-> c, start_pos |-> c.pos, entry |-> c]

SetCursor(c) ==
    /\ pos' = c.pos
    /\ indent_stack' = c.indent_stack
    /\ pending_dedents' = c.pending_dedents
    /\ at_line_start' = c.at_line_start
    /\ current_line_indent' = c.current_line_indent

SetErr(e) ==
    /\ furthest_pos' = e.furthest_pos
    /\ furthest_expected' = e.furthest_expected
    /\ furthest_rule' = e.furthest_rule

Fixed == UNCHANGED <<grammar, out_grammar, input, bnf, meta>>
NoResult == UNCHANGED <<phase, outcome, ast, error, output>>

Running(t, pc) ==
    /\ phase = "run"
    /\ Len(stack) > 0
    /\ Top(stack).e.t = t
    /\ Top(stack).pc = pc
    /\ (pc = "wait") = ret.set

\* the activation on top calls parse_expr(e, ctx) with the cursor at c
Call(f, e, ctx, c) ==
    /\ stack' = Append([stack EXCEPT ![Len(stack)] = [f EXCEPT !.pc = "wait"]],
                       Frame(e, ctx, c))
    /\ ret' = NoRet
    /\ UNCHANGED max_ok_pos

\* the activation on top returns Some(node) / None with the cursor at c
Return(ok, node, c) ==
    /\ stack' = pop(stack)
    /\ ret' = [set |-> TRUE, ok |-> ok, node |-> node, t |-> Top(stack).e.t,
               entry |-> Top(stack).entry, from |-> Cursor]
    /\ max_ok_pos' = IF ok THEN Max(max_ok_pos, c.pos) ELSE max_ok_pos

\* a terminal: run it on the cursor, record the failure, return
Terminal(r) ==
    /\ SetCursor(r.c)
    /\ SetErr(IF r.ok THEN Err
              ELSE record_error(Err, r.c.pos, r.expected, Top(stack).ctx))
    /\ Return(r.ok, r.node, r.c)
    /\ Fixed /\ NoResult

ParseLiteral ==
    /\ Running("Literal", "enter")
    /\ Terminal(parse_literal(input, Cursor, Top(stack).e.s))

ParsePattern ==
    /\ Running("Pattern", "enter")
    /\ Terminal(parse_pattern(input, Cursor, Top(stack).e.pattern))

ParseIndent ==
    /\ Running("Indent", "enter")
    /\ Terminal(parse_indent(input, Cursor))

ParseDedent ==
    /\ Running("Dedent", "enter")
    /\ Terminal(parse_dedent(input, Cursor))

ParseNewline ==
    /\ Running("Newline", "enter")
    /\ Terminal(parse_newline(input, Cursor))

ParseSameIndent ==
    /\ Running("SameIndent", "enter")
    /\ Terminal(parse_same_indent(input, Cursor))

\* parse_rule, to the call of parse_expr
ParseRuleCall ==
    /\ Running("RuleRef", "enter")
    /\ LET f == Top(stack)
       IN  IF f.e.name \notin DOMAIN grammar.rules
           THEN Return(FALSE, ASTNode_new(""), Cursor)
           ELSE Call([f EXCEPT !.start_pos = pos],
                     grammar.rules[f.e.name].expr, f.e.name, Cursor)
    /\ UNCHANGED <<pos, indent_stack, pending_dedents, at_line_start,
                   current_line_indent, furthest_pos, furthest_expected,
                   furthest_rule>>
    /\ Fixed /\ NoResult

\* a parse_rule that leaves out the white space before the text of the rule
rule_node_trimmed(src, rule_name, node, start_pos, p) ==
    [(IF DOMAIN node.children = {} /\ Len(node.value) = 0
      THEN [node EXCEPT !.value = Slice(src, skip_from(src, start_pos), p)]
      ELSE node) EXCEPT !.name = rule_name]

\* the node parse_rule returns for the node its body returned
rule_node(src, rule_name, node, start_pos, p) ==
    [(IF DOMAIN node.children = {} /\ Len(node.value) = 0
      THEN [node EXCEPT !.value = Slice(src, start_pos, p)]
      ELSE node) EXCEPT !.name = rule_name]

\* parse_rule, from the return of parse_expr
ParseRuleReturn ==
    /\ Running("RuleRef", "wait")
    /\ LET f == Top(stack)
           c == IF ret.ok THEN Cursor ELSE [Cursor EXCEPT !.pos = f.start_pos]
       IN  /\ SetCursor(c)
           /\ Return(ret.ok,
                     IF ret.ok
                     THEN rule_node(input, f.e.name, ret.node, f.start_pos, pos)
                     ELSE ASTNode_new(""),
                     c)
    /\ UNCHANGED <<furthest_pos, furthest_expected, furthest_rule>>
    /\ Fixed /\ NoResult

\* a child result taken into node: a user-named child is added, an internal
\* one has its children spliced unless its name is in `dropped`
merge_child(node, child, dropped) ==
    IF ~IsInternal(child.name) THEN add_child(node, child)
    ELSE IF child.name \notin dropped THEN splice_children(node, child)
    ELSE node

SequenceDropped == {"_literal", "_pattern", "_optional_empty", "_indent",
                    "_dedent", "_newline"}
RepeatDropped == {"_indent", "_dedent", "_newline"}

\* a backtrack that puts back pos and leaves the indentation fields
backtrack_pos_only(c, snap) == [c EXCEPT !.pos = snap.pos]

\* a backtrack that puts back the indentation fields and leaves pos
backtrack_keeps_pos(c, snap) == [snap EXCEPT !.pos = c.pos]

\* the assignments that put the start_* locals back into the parser
parse_sequence_backtrack(c, snap) == snap
parse_choice_backtrack(c, snap) == snap
parse_repeat_backtrack(c, snap) == snap
parse_optional_backtrack(c, snap) == snap

KeepCursorAndErr ==
    UNCHANGED <<pos, indent_stack, pending_dedents, at_line_start,
                current_line_indent, furthest_pos, furthest_expected,
                furthest_rule>>

ParseSequenceEnter ==
    /\ Running("Sequence", "enter")
    /\ LET f == Top(stack)
           g == [f EXCEPT !.snap = Cursor, !.node = ASTNode_new(f.ctx), !.i = 1]
       IN  IF Len(f.e.items) = 0
           THEN Return(TRUE, g.node, Cursor)
           ELSE Call(g, f.e.items[1], f.ctx, Cursor)
    /\ KeepCursorAndErr
    /\ Fixed /\ NoResult

ParseSequenceReturn ==
    /\ Running("Sequence", "wait")
    /\ LET f == Top(stack)
           node == merge_child(f.node, ret.node, SequenceDropped)
           c == IF ret.ok THEN Cursor ELSE parse_sequence_backtrack(Cursor, f.snap)
       IN  /\ SetCursor(c)
           /\ IF ~ret.ok THEN Return(FALSE, ASTNode_new(""), c)
              ELSE IF f.i < Len(f.e.items)
                   THEN Call([f EXCEPT !.node = node, !.i = f.i + 1],
                             f.e.items[f.i + 1], f.ctx, c)
                   ELSE Return(TRUE, node, c)
    /\ UNCHANGED <<furthest_pos, furthest_expected, furthest_rule>>
    /\ Fixed /\ NoResult

ParseChoiceEnter ==
    /\ Running("Choice", "enter")
    /\ LET f == Top(stack)
       IN  IF Len(f.e.items) = 0
           THEN Return(FALSE, ASTNode_new(""), Cursor)
           ELSE Call([f EXCEPT !.snap = Cursor, !.i = 1], f.e.items[1], f.ctx, Cursor)
    /\ KeepCursorAndErr
    /\ Fixed /\ NoResult

\* the node parse_choice returns for the alternative that matched
choice_node(context_rule, child) ==
    IF child.name = context_rule THEN child
    ELSE IF ~IsInternal(child.name) THEN add_child(ASTNode_new(context_rule), child)
    ELSE splice_children(ASTNode_new(context_rule), child)

ParseChoiceReturn ==
    /\ Running("Choice", "wait")
    /\ LET f == Top(stack)
           c == IF ret.ok THEN Cursor ELSE parse_choice_backtrack(Cursor, f.snap)
       IN  /\ SetCursor(c)
           /\ IF ret.ok THEN Return(TRUE, choice_node(f.ctx, ret.node), c)
              ELSE IF f.i < Len(f.e.items)
                   THEN Call([f EXCEPT !.i = f.i + 1], f.e.items[f.i + 1], f.ctx, c)
                   ELSE Return(FALSE, ASTNode_new(""), c)
    /\ UNCHANGED <<furthest_pos, furthest_expected, furthest_rule>>
    /\ Fixed /\ NoResult

ParseZeroOrMoreEnter ==
    /\ Running("ZeroOrMore", "enter")
    /\ LET f == Top(stack)
       IN  Call([f EXCEPT !.snap = Cursor, !.node = ASTNode_new("_repeat"), !.i = 1],
                f.e.inner, f.ctx, Cursor)
    /\ KeepCursorAndErr
    /\ Fixed /\ NoResult

\* one turn of the loop of parse_zero_or_more, and of the second loop of
\* parse_one_or_more: take the child and go round, or backtrack and break
RepeatTurn(f) ==
    LET c == IF ret.ok THEN Cursor ELSE parse_repeat_backtrack(Cursor, f.snap)
    IN  /\ SetCursor(c)
        /\ IF ret.ok
           THEN Call([f EXCEPT !.node = merge_child(f.node, ret.node,
                                                    RepeatDropped),
                               !.snap = c, !.i = 1],
                     f.e.inner, f.ctx, c)
           ELSE Return(TRUE, f.node, c)

ParseZeroOrMoreReturn ==
    /\ Running("ZeroOrMore", "wait")
    /\ RepeatTurn(Top(stack))
    /\ UNCHANGED <<furthest_pos, furthest_expected, furthest_rule>>
    /\ Fixed /\ NoResult

ParseOneOrMoreEnter ==
    /\ Running("OneOrMore", "enter")
    /\ Call(Top(stack), Top(stack).e.inner, Top(stack).ctx, Cursor)
    /\ KeepCursorAndErr
    /\ Fixed /\ NoResult

ParseOneOrMoreReturn ==
    /\ Running("OneOrMore", "wait")
    /\ LET f == Top(stack)
       IN  IF f.i = 0
           THEN \* `let first = self.parse_expr(inner, context_rule)?;`
                IF ret.ok
                THEN /\ Call([f EXCEPT !.node = merge_child(ASTNode_new("_repeat"),
                                                 ret.node, RepeatDropped),
                                       !.snap = Cursor, !.i = 1],
                             f.e.inner, f.ctx, Cursor)
                     /\ SetCursor(Cursor)
                ELSE /\ Return(FALSE, ASTNode_new(""), Cursor)
                     /\ SetCursor(Cursor)
           ELSE RepeatTurn(f)
    /\ UNCHANGED <<furthest_pos, furthest_expected, furthest_rule>>
    /\ Fixed /\ NoResult

ParseOptionalEnter ==
    /\ Running("Optional", "enter")
    /\ LET f == Top(stack)
       IN  Call([f EXCEPT !.snap = Cursor, !.i = 1], f.e.inner, f.ctx, Cursor)
    /\ KeepCursorAndErr
    /\ Fixed /\ NoResult

ParseOptionalReturn ==
    /\ Running("Optional", "wait")
    /\ LET f == Top(stack)
           c == IF ret.ok THEN Cursor ELSE parse_optional_backtrack(Cursor, f.snap)
       IN  /\ SetCursor(c)
           /\ Return(TRUE,
                     IF ret.ok THEN ret.node ELSE ASTNode_new("_optional_empty"), c)
    /\ UNCHANGED <<furthest_pos, furthest_expected, furthest_rule>>
    /\ Fixed /\ NoResult

ParseGroupEnter ==
    /\ Running("Group", "enter")
    /\ Call([Top(stack) EXCEPT !.i = 1], Top(stack).e.inner, Top(stack).ctx, Cursor)
    /\ KeepCursorAndErr
    /\ Fixed /\ NoResult

ParseGroupReturn ==
    /\ Running("Group", "wait")
    /\ Return(ret.ok,
              IF ret.ok THEN splice_children(ASTNode_new("_group"), ret.node)
              ELSE ASTNode_new(""),
              Cursor)
    /\ KeepCursorAndErr
    /\ Fixed /\ NoResult

---------------------------------------------------------------------------
(* parser.rs: parse() and the ParseError *)

\* pos_to_line_col: count the characters before offset p
RECURSIVE line_col_from(_, _, _, _, _)
line_col_from(src, i, p, line, col) ==
    IF i >= Len(src) \/ i >= p THEN <<line, col>>
    ELSE IF src[i + 1] = "\n" THEN line_col_from(src, i + 1, p, line + 1, 1)
         ELSE line_col_from(src, i + 1, p, line, col + 1)

\* The text is its UTF-8 bytes and every offset is a byte offset.  The
\* two-byte character U+00E9 is the bytes C3 A9.
Eacute == <<"C3", "A9">>

\* a byte 10xxxxxx, which continues a character
is_continuation(b) == b = "A9"

\* str::chars: one element for each character (its first byte)
chars(s) == SelectSeq(s, LAMBDA b : ~is_continuation(b))

\* chars().take(n), as bytes
RECURSIVE take_chars(_, _)
take_chars(s, n) ==
    IF Len(s) = 0 THEN <<>>
    ELSE IF is_continuation(s[1]) THEN <<s[1]>> \o take_chars(Tail(s), n)
    ELSE IF n = 0 THEN <<>>
    ELSE <<s[1]>> \o take_chars(Tail(s), n - 1)

\* the loop runs over chars().enumerate() and compares the character index
\* with the byte offset p
pos_to_line_col(src, p) == line_col_from(chars(src), 0, p, 1, 1)

PreviewLen == 20

EndOfInput == <<"e", "n", "d", " ", "o", "f", " ", "i", "n", "p", "u", "t">>

get_found_text(src, p) ==
    LET remaining == Suffix(src, p)
    IN  IF Len(remaining) = 0
        THEN EndOfInput
        ELSE IF Len(remaining) > PreviewLen
             THEN take_chars(remaining, PreviewLen) \o <<".", ".", ".">>
             ELSE take_chars(remaining, PreviewLen)

build_error(src, e) ==
    [position |-> e.furthest_pos,
     line |-> pos_to_line_col(src, e.furthest_pos)[1],
     column |-> pos_to_line_col(src, e.furthest_pos)[2],
     expected |-> e.furthest_expected,
     found |-> get_found_text(src, e.furthest_pos),
     context_rule |-> e.furthest_rule]

NoError == [position |-> 0, line |-> 0, column |-> 0, expected |-> <<>>,
            found |-> <<>>, context_rule |-> ""]

\* parse(), to the call of parse_rule(start_rule)
ParseStart ==
    /\ phase = "parse"
    /\ LET c == update_line_indent(input, Cursor)
       IN  /\ SetCursor(c)
           /\ stack' = <<Frame(RuleRef(grammar.start_rule), "", c)>>
    /\ phase' = "run"
    /\ ret' = NoRet
    /\ UNCHANGED <<furthest_pos, furthest_expected, furthest_rule, outcome, ast,
                   error, output, max_ok_pos>>
    /\ Fixed

\* parse(), from the return of parse_rule(start_rule)
ParseFinish ==
    /\ phase = "run"
    /\ Len(stack) = 0
    /\ ret.set
    /\ LET c == skip_whitespace_no_newline(input, Cursor)
           trailing == ret.ok /\ c.pos < Len(input)
           e == IF trailing
                THEN record_error(Err, c.pos, EndOfInput, grammar.start_rule)
                ELSE Err
       IN  /\ SetCursor(c)
           /\ SetErr(e)
           /\ outcome' = IF ~ret.ok THEN "failed"
                         ELSE IF trailing THEN "trailing" ELSE "ok"
           /\ ast' = IF ret.ok /\ ~trailing THEN ret.node ELSE ast
           /\ error' = IF ret.ok /\ ~trailing THEN error ELSE build_error(input, e)
           /\ phase' = IF ret.ok /\ ~trailing THEN "generate" ELSE "done"
    /\ UNCHANGED <<stack, ret, output, max_ok_pos>>
    /\ Fixed

---------------------------------------------------------------------------
(* meta_parser.rs: OutputExpr *)

OutLiteral(s)      == [t |-> "Literal", s |-> s]
OutRuleRef(name)   == [t |-> "RuleRef", name |-> name]
OutSequence(items) == [t |-> "Sequence", items |-> items]
OutOptional(e)     == [t |-> "Optional", inner |-> e]
Join(rule, sep)    == [t |-> "Join", rule |-> rule, separator |-> sep]
Match(cases, def)  == [t |-> "Match", cases |-> cases, default |-> def]
ContextIf(cv, then_expr, else_expr) ==
    [t |-> "ContextIf", context_value |-> cv, then_expr |-> then_expr,
     else_expr |-> else_expr]
OutChoice(alts)    == [t |-> "Choice", items |-> alts]

OutputRule(name, expr) == [name |-> name, expr |-> expr]

\* the default of `_ => @value`
AtValue == <<"@", "v", "a", "l", "u", "e">>

---------------------------------------------------------------------------
(* generator.rs.  A result is [text, overflow]: the string, or the fact    *)
(* that the recursion went deeper than MaxGenDepth calls of generate_rule. *)

MaxGenDepth == 6

Out(text) == [text |-> text, overflow |-> FALSE]
Overflow == [text |-> <<>>, overflow |-> TRUE]
Cat(a, b) == [text |-> a.text \o b.text, overflow |-> a.overflow \/ b.overflow]

Reverse(s) == [i \in 1..Len(s) |-> s[Len(s) + 1 - i]]

\* a join that ends every part with the separator
RECURSIVE join_terminated(_, _, _)
join_terminated(parts, sep, i) ==
    IF i > Len(parts) THEN Out(<<>>)
    ELSE Cat(Cat(parts[i], Out(sep)), join_terminated(parts, sep, i + 1))

\* a scan of the cases in which the last equal pattern wins
match_last_case(cases, default, value, i) ==
    LET hits == {j \in i..Len(cases) : cases[j][1] = value}
    IN  IF hits = {} THEN (IF default = AtValue THEN value ELSE default)
        ELSE cases[CHOOSE j \in hits : \A k \in hits : k <= j][2]

\* Vec<String>::join(sep)
RECURSIVE join(_, _, _)
join(parts, sep, i) ==
    IF i > Len(parts) THEN Out(<<>>)
    ELSE Cat(IF i > 1 THEN Cat(Out(sep), parts[i]) ELSE parts[i],
             join(parts, sep, i + 1))

\* the loop over cases of Match: the replacement of the first equal pattern
RECURSIVE match_cases(_, _, _, _)
match_cases(cases, default, value, i) ==
    IF i > Len(cases)
    THEN IF default = AtValue THEN value ELSE default
    ELSE IF value = cases[i][1] THEN cases[i][2]
         ELSE match_cases(cases, default, value, i + 1)

\* a context handed down as it is, whatever rule is being evaluated
inherited_context(current_rule, context) == context

\* the context given to a rule invoked from current_rule: the invoking rule
child_context(current_rule, context) == current_rule

RECURSIVE generate_rule(_, _, _, _, _, _)
RECURSIVE generate_expr(_, _, _, _, _, _, _)
RECURSIVE generate_items(_, _, _, _, _, _, _, _)
RECURSIVE generate_children(_, _, _, _, _, _)
RECURSIVE generate_buckets(_, _, _, _, _, _, _)
RECURSIVE generate_choice(_, _, _, _, _, _, _, _)

\* g: the output grammar; rev: the HashMap iteration order of this run;
\* d: the number of generate_rule calls this one is nested in
generate_rule(g, rev, rule_name, node, context, d) ==
    IF d > MaxGenDepth THEN Overflow
    ELSE IF rule_name \in DOMAIN g.rules
    THEN generate_expr(g, rev, g.rules[rule_name].expr, node, rule_name, context, d)
    ELSE IF Len(node.value) > 0 THEN Out(node.value)
    ELSE generate_buckets(g, rev, node,
                          IF rev THEN Reverse(Keys(DOMAIN node.children))
                          ELSE Keys(DOMAIN node.children),
                          rule_name, d, 1)

\* for (_, children) in &ast.children
generate_buckets(g, rev, node, order, rule_name, d, i) ==
    IF i > Len(order) THEN Out(<<>>)
    ELSE Cat(generate_children(g, rev, node.children[order[i]], rule_name, d, 1),
             generate_buckets(g, rev, node, order, rule_name, d, i + 1))

\* for child in children
generate_children(g, rev, children, rule_name, d, i) ==
    IF i > Len(children) THEN Out(<<>>)
    ELSE Cat(generate_rule(g, rev, children[i].name, children[i], rule_name, d + 1),
             generate_children(g, rev, children, rule_name, d, i + 1))

\* Sequence: for item in items
generate_items(g, rev, items, node, current_rule, context, d, i) ==
    IF i > Len(items) THEN Out(<<>>)
    ELSE Cat(generate_expr(g, rev, items[i], node, current_rule, context, d),
             generate_items(g, rev, items, node, current_rule, context, d, i + 1))

\* Choice: the first alternative with a non-empty result
generate_choice(g, rev, alts, node, current_rule, context, d, i) ==
    IF i > Len(alts) THEN Out(<<>>)
    ELSE LET r == generate_expr(g, rev, alts[i], node, current_rule, context, d)
         IN  IF Len(r.text) > 0 \/ r.overflow THEN r
             ELSE generate_choice(g, rev, alts, node, current_rule, context, d, i + 1)

generate_expr(g, rev, expr, node, current_rule, context, d) ==
    CASE expr.t = "Literal" -> Out(expand_escapes(expr.s))
      [] expr.t = "RuleRef" ->
            IF has_child(node, expr.name)
            THEN generate_rule(g, rev, expr.name, get_child(node, expr.name),
                               child_context(current_rule, context), d + 1)
            ELSE IF node.name = expr.name
            THEN generate_rule(g, rev, expr.name, node,
                               child_context(current_rule, context), d + 1)
            ELSE IF Len(node.value) > 0 /\ DOMAIN node.children = {}
            THEN generate_rule(g, rev, expr.name, node,
                               child_context(current_rule, context), d + 1)
            ELSE Out(<<>>)
      [] expr.t = "Sequence" ->
            generate_items(g, rev, expr.items, node, current_rule, context, d, 1)
      [] expr.t = "Optional" ->
            LET r == generate_expr(g, rev, expr.inner, node, current_rule, context, d)
            IN  IF IsBlank(r.text) THEN [r EXCEPT !.text = <<>>] ELSE r
      [] expr.t = "Join" ->
            LET children == get_children(node, expr.rule)
                parts == [i \in 1..Len(children) |->
                            generate_rule(g, rev, expr.rule, children[i],
                                          child_context(current_rule, context),
                                          d + 1)]
            IN  join(parts, expand_escapes(expr.separator), 1)
      [] expr.t = "Match" ->
            Out(match_cases(expr.cases, expr.default, node.value, 1))
      [] expr.t = "ContextIf" ->
            IF context = expr.context_value
            THEN generate_expr(g, rev, expr.then_expr, node, current_rule, context, d)
            ELSE generate_expr(g, rev, expr.else_expr, node, current_rule, context, d)
      [] expr.t = "Choice" ->
            generate_choice(g, rev, expr.items, node, current_rule, context, d, 1)

\* Generator::generate
generate(g, rev, node) == generate_rule(g, rev, node.name, node, "", 1)

\* main(), Step 4: the output of the generator for the AST
Generate ==
    /\ phase = "generate"
    /\ \E rev \in BOOLEAN : output' = generate(out_grammar, rev, ast)
    /\ phase' = "done"
    /\ UNCHANGED <<pos, indent_stack, pending_dedents, at_line_start,
                   current_line_indent, furthest_pos, furthest_expected,
                   furthest_rule, stack, ret, outcome, ast, error, max_ok_pos>>
    /\ Fixed

---------------------------------------------------------------------------
(* The grammars and sources of the runs.  A grammar is written as the      *)
(* object MetaParser builds from the text in the comment above it.         *)

Lower == {"a", "b", "c", "d", "e", "f", "g", "h", "i", "j", "k", "l", "m",
          "n", "o", "p", "q", "r", "s", "t", "u", "v", "w", "x", "y", "z"}
Upper == {"A", "B", "C", "D", "E", "F", "G", "H", "I", "J", "K", "L", "M",
          "N", "O", "P", "Q", "R", "S", "T", "U", "V", "W", "X", "Y", "Z"}
\* the characters a negated class can match in the sources below
AnyChar == Lower \cup Upper \cup
           {"_", " ", "\t", "\r", "\n", ",", ";", "(", ")", "1", "2", "3"}

\* longest source drawn from an alphabet
MaxSrcLen == 4

Strings(A, n) == UNION {[1..k -> A] : k \in 0..n}

Rules1(a) == (a.name :> a)
Rules2(a, b) == Rules1(a) @@ (b.name :> b)
Rules3(a, b, c) == Rules2(a, b) @@ (c.name :> c)

\* "[a-zA-Z_]+"
NamePattern == [src |-> <<"[", "a", "-", "z", "A", "-", "Z", "_", "]", "+">>,
                alts |-> << <<Atom(Lower \cup Upper \cup {"_"}, "+")>> >>]

\* main.rs DEFAULT_INPUT_GRAMMAR
\*   func_decl := ret_type name "(" args? ")" ";";
\*   args      := arg ("," arg)*;
\*   arg       := type name;
\*   ret_type  := "void" | "int";
\*   type      := "int" | "float";
\*   name      := "[a-zA-Z_]+";
DEFAULT_INPUT_GRAMMAR ==
    [start_rule |-> "func_decl",
     rules |->
        Rules3(InputRule("func_decl",
                   Sequence(<<RuleRef("ret_type"), RuleRef("name"), Literal(<<"(">>),
                              Optional(RuleRef("args")), Literal(<<")">>),
                              Literal(<<";">>)>>)),
               InputRule("args",
                   Sequence(<<RuleRef("arg"),
                              ZeroOrMore(Group(Sequence(<<Literal(<<",">>),
                                                          RuleRef("arg")>>)))>>)),
               InputRule("arg", Sequence(<<RuleRef("type"), RuleRef("name")>>)))
        @@
        Rules3(InputRule("ret_type", Choice(<<Literal(<<"v", "o", "i", "d">>), Literal(<<"i", "n", "t">>)>>)),
               InputRule("type", Choice(<<Literal(<<"i", "n", "t">>), Literal(<<"f", "l", "o", "a", "t">>)>>)),
               InputRule("name", Pattern(NamePattern)))]

\* main.rs DEFAULT_OUTPUT_GRAMMAR
\*   func_decl := "fn " name "(" args? ")" " -> " ret_type ";";
\*   args      := arg join ", ";
\*   arg       := name ": " type;
\*   ret_type  := match @value { "void" => "()", "int" => "i32", _ => @value };
\*   type      := match @value { "int" => "i32", "float" => "f64", _ => @value };
DEFAULT_OUTPUT_GRAMMAR ==
    [rules |->
        Rules3(OutputRule("func_decl",
                   OutSequence(<<OutLiteral(<<"f", "n", " ">>), OutRuleRef("name"),
                                 OutLiteral(<<"(">>), OutOptional(OutRuleRef("args")),
                                 OutLiteral(<<")">>), OutLiteral(<<" ", "-", ">", " ">>),
                                 OutRuleRef("ret_type"), OutLiteral(<<";">>)>>)),
               OutputRule("args", Join("arg", <<",", " ">>)),
               OutputRule("arg",
                   OutSequence(<<OutRuleRef("name"), OutLiteral(<<":", " ">>),
                                 OutRuleRef("type")>>)))
        @@
        Rules2(OutputRule("ret_type",
                   Match(<< <<<<"v", "o", "i", "d">>, <<"(", ")">>>>, <<<<"i", "n", "t">>, <<"i", "3", "2">>>> >>, AtValue)),
               OutputRule("type",
                   Match(<< <<<<"i", "n", "t">>, <<"i", "3", "2">>>>, <<<<"f", "l", "o", "a", "t">>, <<"f", "6", "4">>>> >>, AtValue)))]

\* the source and the expected output of the first end-to-end scenario
SignatureSource == <<"i", "n", "t", " ", "m", "y", "_", "f", "u", "n", "c", "(", "i", "n", "t", " ", "a", ",", " ", "f", "l", "o", "a", "t", " ", "b", ")", ";">>
SignatureOutput == <<"f", "n", " ", "m", "y", "_", "f", "u", "n", "c", "(", "a", ":", " ", "i", "3", "2", ",", " ", "b", ":", " ", "f", "6", "4", ")", " ", "-", ">", " ", "i", "3", "2", ";">>

DefaultSources ==
    {SignatureSource,
     <<"v", "o", "i", "d", " ", "f", "(", ")", ";">>,
     <<"i", "n", "t", " ", "1", "2", "3", "b", "a", "d", "(", ")", ";">>,
     <<"i", "n", "t", " ", "f", "(", "i", "n", "t", " ", "a", ",", "f", "l", "o", "a", "t", " ", "b", ")", ";">>,
     <<"v", "o", "i", "d", " ", "g", " ", "(", " ", "f", "l", "o", "a", "t", " ", "x", " ", ")", " ", ";">>}

\* Scenario 4
\*   list := (item ("," item)*)?;
\*   item := "[a-z]+";
ListGrammar ==
    [start_rule |-> "list",
     rules |->
        Rules2(InputRule("list",
                   Optional(Group(Sequence(<<RuleRef("item"),
                       ZeroOrMore(Group(Sequence(<<Literal(<<",">>),
                                                   RuleRef("item")>>)))>>)))),
               InputRule("item",
                   Pattern([src |-> <<"[", "a", "-", "z", "]", "+">>, alts |-> << <<Atom(Lower, "+")>> >>])))]

\*   list := item join SEP;
JoinOutput(sep) == [rules |-> Rules1(OutputRule("list", Join("item", sep)))]

\*   list := item join SEP;
\*   item := match @value { "a" => "", "b" => "bb", _ => @value };
JoinMatchOutput(sep) ==
    [rules |-> Rules2(OutputRule("list", Join("item", sep)),
                      OutputRule("item",
                          Match(<< <<<<"a">>, <<>> >>, <<<<"b">>, <<"b", "b">>>> >>, AtValue)))]

ListSources == Strings({"a", "b", ","}, MaxSrcLen) \cup {<<"a", ",", "b", ",", "c">>, <<"a", ",", " ", "b", " ", ",", "c">>}

\*   t := "[ab]+";
LeafGrammar ==
    [start_rule |-> "t",
     rules |-> Rules1(InputRule("t",
                   Pattern([src |-> <<"[", "a", "b", "]", "+">>,
                            alts |-> << <<Atom({"a", "b"}, "+")>> >>])))]

\*   t := match @value { CASES _ => DEFAULT };
MatchOutput(cases, default) == [rules |-> Rules1(OutputRule("t", Match(cases, default)))]

\* { "a" => "x", "ab" => "", "a" => "y", _ => @value }
MatchCasesA == << <<<<"a">>, <<"x">>>>, <<<<"a", "b">>, <<>> >>, <<<<"a">>, <<"y">>>> >>
\* { "b" => "y", "bb" => "b" }
MatchCasesB == << <<<<"b">>, <<"y">>>>, <<<<"b", "b">>, <<"b">>>> >>

LeafSources == Strings({"a", "b"}, MaxSrcLen)

\* Scenario 5
\*   block := "begin" NEWLINE INDENT stmt+ DEDENT;
\*   stmt  := name NEWLINE;
\*   name  := "[a-z]+";
StmtRule == InputRule("stmt", Sequence(<<RuleRef("name"), Newline>>))
NameRule == InputRule("name",
                Pattern([src |-> <<"[", "a", "-", "z", "]", "+">>, alts |-> << <<Atom(Lower, "+")>> >>]))
BlockGrammar ==
    [start_rule |-> "block",
     rules |->
        Rules3(InputRule("block",
                   Sequence(<<Literal(<<"b", "e", "g", "i", "n">>), Newline, Indent,
                              OneOrMore(RuleRef("stmt")), Dedent>>)),
               StmtRule, NameRule)]

\*   block := stmt join "\n";
\*   stmt  := name;
BlockOutput ==
    [rules |-> Rules2(OutputRule("block", Join("stmt", <<"\\", "n">>)),
                      OutputRule("stmt", OutRuleRef("name")))]

\*   block := "begin" NEWLINE INDENT stmt+;      (no DEDENT closes the block)
OpenBlockGrammar ==
    [start_rule |-> "block",
     rules |->
        Rules3(InputRule("block",
                   Sequence(<<Literal(<<"b", "e", "g", "i", "n">>), Newline, Indent,
                              OneOrMore(RuleRef("stmt"))>>)),
               StmtRule, NameRule)]

\*   block := "begin" NEWLINE INDENT stmt INDENT stmt+ DEDENT (DEDENT | stmt);
NestedBlockGrammar ==
    [start_rule |-> "block",
     rules |->
        Rules3(InputRule("block",
                   Sequence(<<Literal(<<"b", "e", "g", "i", "n">>), Newline, Indent, RuleRef("stmt"),
                              Indent, OneOrMore(RuleRef("stmt")), Dedent,
                              Group(Choice(<<Dedent, RuleRef("stmt")>>))>>)),
               StmtRule, NameRule)]

\*   block := "begin" NEWLINE INDENT stmt INDENT stmt+ (DEDENT "end")?;
ClosedBlockGrammar ==
    [start_rule |-> "block",
     rules |->
        Rules3(InputRule("block",
                   Sequence(<<Literal(<<"b", "e", "g", "i", "n">>), Newline, Indent, RuleRef("stmt"),
                              Indent, OneOrMore(RuleRef("stmt")),
                              Optional(Group(Sequence(<<Dedent,
                                  Literal(<<"e", "n", "d">>)>>)))>>)),
               StmtRule, NameRule)]

\*   block := "begin" NEWLINE INDENT stmt INDENT ("b" NEWLINE)+ DEDENT stmt
\*            (INDENT | DEDENT) stmt;
PendingBlockGrammar ==
    [start_rule |-> "block",
     rules |->
        Rules3(InputRule("block",
                   Sequence(<<Literal(<<"b", "e", "g", "i", "n">>), Newline, Indent, RuleRef("stmt"),
                              Indent,
                              OneOrMore(Group(Sequence(<<Literal(<<"b">>), Newline>>))),
                              Dedent, RuleRef("stmt"),
                              Group(Choice(<<Indent, Dedent>>)), RuleRef("stmt")>>)),
               StmtRule, NameRule)]

\* a line dedented by two levels at once, and a deeper line after it
PendingBlockSources ==
    {<<"b", "e", "g", "i", "n", "\n", " ", " ", "a", "\n", " ", " ", " ", " ", "b", "\n", " ", "c", "\n", " ", " ", " ", "d", "\n">>,
     <<"b", "e", "g", "i", "n", "\n", " ", " ", "a", "\n", " ", " ", " ", " ", "b", "\n", " ", " ", "c", "\n", " ", " ", " ", "d", "\n">>}

\*   block := "begin" NEWLINE INDENT stmt INDENT stmt INDENT ("b" NEWLINE)+
\*            DEDENT DEDENT? DEDENT? DEDENT? stmt;
DeepBlockGrammar ==
    [start_rule |-> "block",
     rules |->
        Rules3(InputRule("block",
                   Sequence(<<Literal(<<"b", "e", "g", "i", "n">>), Newline, Indent, RuleRef("stmt"),
                              Indent, RuleRef("stmt"), Indent,
                              OneOrMore(Group(Sequence(<<Literal(<<"b">>), Newline>>))),
                              Dedent, Optional(Dedent), Optional(Dedent),
                              Optional(Dedent), RuleRef("stmt")>>)),
               StmtRule, NameRule)]

\* three nested blocks (levels 2, 4 and 6)
DeepBlockHead ==
    <<"b", "e", "g", "i", "n", "\n", " ", " ", "a", "\n", " ", " ", " ", " ", "a", "\n",
      " ", " ", " ", " ", " ", " ", "b", "\n">>

\* the three blocks and a line after them indented by 0 to 6 columns
DeepBlockSources ==
    {DeepBlockHead \o [i \in 1..n |-> " "] \o <<"c", "\n">> : n \in 0..6}
        \cup {DeepBlockHead}

BlockSources ==
    {<<"b", "e", "g", "i", "n", "\n", " ", " ", "a", "\n", " ", " ", "b", "\n">>,
     <<"b", "e", "g", "i", "n", "\n", " ", " ", "a", "\n">>,
     <<"b", "e", "g", "i", "n", "\n", "\t", "a", "\n", "\n", " ", "\t", "b", "\n">>,
     <<"b", "e", "g", "i", "n", "\n", "a", "\n">>,
     <<"b", "e", "g", "i", "n", "\n", " ", " ", "a", "\n", " ", " ", "b">>,
     <<"b", "e", "g", "i", "n", " ", "\r", "\n", " ", " ", "a", "\n", " ", " ", " ", " ", "b", "\n", " ", " ", " ", " ", "c", "\n">>,
     <<"b", "e", "g", "i", "n", "\n", " ", " ", "a", "\n", " ", " ", " ", " ", "b", "\n", " ", " ", "c", "\n">>,
     <<"b", "e", "g", "i", "n", "\n", " ", " ", "a", "\n", " ", " ", " ", " ", "b", "\n", " ", "c", "\n">>}

\*   s := "a" NEWLINE INDENT "a" "a" | "a" NEWLINE INDENT "a" | "a"+;
LineChoiceGrammar ==
    [start_rule |-> "s",
     rules |->
        Rules1(InputRule("s",
            Choice(<<Sequence(<<Literal(<<"a">>), Newline, Indent, Literal(<<"a">>),
                                Literal(<<"a">>)>>),
                     Sequence(<<Literal(<<"a">>), Newline, Indent, Literal(<<"a">>)>>),
                     OneOrMore(Literal(<<"a">>))>>)))]

LineSources == Strings({"a", "\n", " "}, MaxSrcLen)

\*   s := ("a"?)* "b";
EmptyStarGrammar ==
    [start_rule |-> "s",
     rules |->
        Rules1(InputRule("s",
            Sequence(<<ZeroOrMore(Group(Optional(Literal(<<"a">>)))),
                       Literal(<<"b">>)>>)))]

\*   s := "a*"+;
EmptyPlusGrammar ==
    [start_rule |-> "s",
     rules |->
        Rules1(InputRule("s",
            OneOrMore(Pattern([src |-> <<"a", "*">>,
                               alts |-> << <<Atom({"a"}, "*")>> >>]))))]

EmptySources == {<<>>, <<"a", "b">>}

\*   s := "a" ("b" "c")?;
TailGrammar ==
    [start_rule |-> "s",
     rules |->
        Rules1(InputRule("s",
            Sequence(<<Literal(<<"a">>),
                       Optional(Group(Sequence(<<Literal(<<"b">>),
                                                 Literal(<<"c">>)>>)))>>)))]

TailSources == Strings({"a", "b", "c"}, MaxSrcLen)

\*   s := "a" b;                                 (no rule b)
DanglingGrammar ==
    [start_rule |-> "s",
     rules |->
        Rules1(InputRule("s", Sequence(<<Literal(<<"a">>), RuleRef("b")>>)))]

DanglingSources == Strings({"a", " "}, MaxSrcLen)

\*   s := "[a]+|[b]+";
AltPatternGrammar ==
    [start_rule |-> "s",
     rules |->
        Rules1(InputRule("s",
            Pattern([src |-> <<"[", "a", "]", "+", "|", "[", "b", "]", "+">>,
                     alts |-> << <<Atom({"a"}, "+")>>, <<Atom({"b"}, "+")>> >>])))]

AltPatternSources == Strings({"a", "b", "c"}, MaxSrcLen)

\*   s := "[^;]+" ";";
UntilGrammar ==
    [start_rule |-> "s",
     rules |->
        Rules1(InputRule("s",
            Sequence(<<Pattern([src |-> <<"[", "^", ";", "]", "+">>,
                                alts |-> << <<Atom(AnyChar \ {";"}, "+")>> >>]),
                       Literal(<<";">>)>>)))]

UntilSources == Strings({"a", "\n", ";"}, MaxSrcLen)

\*   top  := one | many | item;
\*   one  := "1" item;
\*   many := "2" item ("," item)*;
\*   item := "[ab]+";
ContextGrammar ==
    [start_rule |-> "top",
     rules |->
        Rules2(InputRule("top", Choice(<<RuleRef("one"), RuleRef("many"),
                                         RuleRef("item")>>)),
               InputRule("one", Sequence(<<Literal(<<"1">>), RuleRef("item")>>)))
        @@ Rules2(InputRule("many",
                      Sequence(<<Literal(<<"2">>), RuleRef("item"),
                                 ZeroOrMore(Group(Sequence(<<Literal(<<",">>),
                                                             RuleRef("item")>>)))>>)),
                  InputRule("item",
                      Pattern([src |-> <<"[", "a", "b", "]", "+">>,
                               alts |-> << <<Atom({"a", "b"}, "+")>> >>])))]

\*   top  := one many item;
\*   one  := "<" item ">";
\*   many := item join ",";
\*   item := if @context == "one" then "O" (if @context == "one" then "o" else "x")?
\*           else if @context == "many" then "M"
\*           else if @context == "" then "R" else "T";
ContextOutput ==
    [rules |->
        Rules2(OutputRule("top", OutSequence(<<OutRuleRef("one"), OutRuleRef("many"),
                                               OutRuleRef("item")>>)),
               OutputRule("one", OutSequence(<<OutLiteral(<<"<">>), OutRuleRef("item"),
                                               OutLiteral(<<">">>)>>)))
        @@ Rules2(OutputRule("many", Join("item", <<",">>)),
                  OutputRule("item",
                      ContextIf("one",
                          OutSequence(<<OutLiteral(<<"O">>),
                              OutOptional(ContextIf("one", OutLiteral(<<"o">>),
                                                    OutLiteral(<<"x">>)))>>),
                          ContextIf("many", OutLiteral(<<"M">>),
                              ContextIf("", OutLiteral(<<"R">>),
                                        OutLiteral(<<"T">>))))))]

ContextSources == Strings({"1", "2", "a", ","}, MaxSrcLen)

\*   t := if @context == NAME then "T" else "E";
RootContextOutput(name) ==
    [rules |-> Rules1(OutputRule("t",
                   ContextIf(name, OutLiteral(<<"T">>), OutLiteral(<<"E">>))))]

NoOutputRules == [rules |-> <<>>]

\*   t := t;
SelfOutput == [rules |-> Rules1(OutputRule("t", OutRuleRef("t")))]

\*   t := u;
\*   u := t;
MutualOutput ==
    [rules |-> Rules2(OutputRule("t", OutRuleRef("u")),
                      OutputRule("u", OutRuleRef("t")))]

\*   t := "<" u ">";                             (no rule u)
LeafFallbackOutput ==
    [rules |-> Rules1(OutputRule("t",
                   OutSequence(<<OutLiteral(<<"<">>), OutRuleRef("u"),
                                 OutLiteral(<<">">>)>>)))]

\*   s := "\u{e9}" "\u{e9}" "b";
Utf8Grammar ==
    [start_rule |-> "s",
     rules |-> Rules1(InputRule("s",
                   Sequence(<<Literal(Eacute), Literal(Eacute), Literal(<<"b">>)>>)))]

\*   s := "a" ("b" | "c") | "d";
FurthestGrammar ==
    [start_rule |-> "s",
     rules |-> Rules1(InputRule("s",
                   Choice(<<Sequence(<<Literal(<<"a">>),
                                       Group(Choice(<<Literal(<<"b">>),
                                                      Literal(<<"c">>)>>))>>),
                            Literal(<<"d">>)>>)))]

FurthestSources == Strings({"a", "b", "d", " "}, MaxSrcLen)

\*   s := "a" NEWLINE;
LineEndGrammar ==
    [start_rule |-> "s",
     rules |-> Rules1(InputRule("s", Sequence(<<Literal(<<"a">>), Newline>>)))]

RECURSIVE Flatten(_)
Flatten(ss) == IF Len(ss) = 0 THEN <<>> ELSE ss[1] \o Flatten(Tail(ss))

\* sources of up to MaxSrcLen characters
Utf8Sources ==
    {Flatten(cs) : cs \in Strings({Eacute, <<"b">>, <<"c">>, <<"\n">>}, MaxSrcLen)}

\* "a" and up to MaxSrcLen blanks, tabs, returns, line breaks and letters
\* after it
LineEndSources ==
    {<<"a">> \o Flatten(cs) :
        cs \in Strings({<<" ">>, <<"\t">>, <<"\r">>, <<"\n">>, <<"\r", "\n">>, <<"b">>},
                       MaxSrcLen)}

Case(g, og, srcs) == [g |-> g, og |-> og, srcs |-> srcs]

Cases == <<
    Case(DEFAULT_INPUT_GRAMMAR, DEFAULT_OUTPUT_GRAMMAR, DefaultSources),
    Case(ListGrammar, JoinOutput(<<",", " ">>), ListSources),
    Case(ListGrammar, JoinOutput(<<"\\", "n", "\\", "t">>), ListSources),
    Case(ListGrammar, JoinMatchOutput(<<";">>), ListSources),
    Case(ListGrammar, JoinMatchOutput(<<>>), ListSources),
    Case(LeafGrammar, MatchOutput(MatchCasesA, AtValue), LeafSources),
    Case(LeafGrammar, MatchOutput(MatchCasesA, <<"d">>), LeafSources),
    Case(LeafGrammar, MatchOutput(MatchCasesB, <<"d">>), LeafSources),
    Case(LeafGrammar, MatchOutput(MatchCasesB, <<>>), LeafSources),
    Case(LeafGrammar, MatchOutput(<<>>, AtValue), LeafSources),
    Case(BlockGrammar, BlockOutput, BlockSources),
    Case(OpenBlockGrammar, BlockOutput, BlockSources),
    Case(NestedBlockGrammar, BlockOutput, BlockSources),
    Case(ClosedBlockGrammar, BlockOutput, BlockSources),
    Case(PendingBlockGrammar, BlockOutput, PendingBlockSources),
    Case(DeepBlockGrammar, BlockOutput, DeepBlockSources),
    Case(LineChoiceGrammar, NoOutputRules, LineSources),
    Case(EmptyStarGrammar, NoOutputRules, EmptySources),
    Case(EmptyPlusGrammar, NoOutputRules, EmptySources),
    Case(TailGrammar, NoOutputRules, TailSources),
    Case(DanglingGrammar, NoOutputRules, DanglingSources),
    Case(AltPatternGrammar, NoOutputRules, AltPatternSources),
    Case(UntilGrammar, NoOutputRules, UntilSources),
    Case(ContextGrammar, ContextOutput, ContextSources),
    Case(LeafGrammar, RootContextOutput("t"), LeafSources),
    Case(LeafGrammar, RootContextOutput(""), LeafSources),
    Case(Utf8Grammar, NoOutputRules, Utf8Sources),
    Case(FurthestGrammar, NoOutputRules, FurthestSources),
    Case(LineEndGrammar, NoOutputRules, LineEndSources),
    Case(LeafGrammar, SelfOutput, LeafSources),
    Case(LeafGrammar, MutualOutput, LeafSources),
    Case(LeafGrammar, LeafFallbackOutput, LeafSources)
>>

---------------------------------------------------------------------------
(* meta_parser.rs: MetaParser.  A function of MetaParser is an operator on *)
(* the text and the position; it gives [ok, some, pos, v]: the position it *)
(* leaves and its value.  ok = FALSE is a panic (assert!, expect), which   *)
(* ends the program; some = FALSE is Option::None.  A Pattern carries the  *)
(* pattern string here; the grammars of the runs above carry it with the   *)
(* Regex that parse_pattern compiles from it.                              *)

Digits == {"0", "1", "2", "3", "4", "5", "6", "7", "8", "9"}

is_whitespace(ch) == ch \in {" ", "\t", "\n", "\r"}
is_alphabetic(ch) == ch \in Lower \cup Upper
is_alphanumeric(ch) == is_alphabetic(ch) \/ ch \in Digits
is_identifier_char(ch) == is_alphanumeric(ch) \/ ch = "_"

MetaOk(p, v) == [ok |-> TRUE, some |-> TRUE, pos |-> p, v |-> v]
MetaNone(p) == [ok |-> TRUE, some |-> FALSE, pos |-> p, v |-> <<>>]
MetaPanic(p) == [ok |-> FALSE, some |-> FALSE, pos |-> p, v |-> <<>>]

\* the String of a slice of the text
RECURSIVE Str(_)
Str(s) == IF Len(s) = 0 THEN "" ELSE s[1] \o Str(Tail(s))

\* peek_char: the character at p, "" for None
peek_char(text, p) == IF p < Len(text) THEN text[p + 1] ELSE ""

RECURSIVE skip_spaces(_, _)
skip_spaces(text, p) ==
    IF p < Len(text) /\ is_whitespace(text[p + 1]) THEN skip_spaces(text, p + 1)
    ELSE p

\* the position after the next '\n', or the end
RECURSIVE skip_line(_, _)
skip_line(text, p) ==
    IF p >= Len(text) THEN p
    ELSE IF text[p + 1] = "\n" THEN p + 1
    ELSE skip_line(text, p + 1)

RECURSIVE skip_whitespace_and_comments(_, _)
skip_whitespace_and_comments(text, p) ==
    LET q == skip_spaces(text, p)
    IN  IF starts_with(Suffix(text, q), <<"/", "/">>)
        THEN skip_whitespace_and_comments(text, skip_line(text, q))
        ELSE q

expect_char(text, p, expected) ==
    IF peek_char(text, p) = expected THEN MetaOk(p + 1, expected) ELSE MetaPanic(p)

RECURSIVE identifier_end(_, _)
identifier_end(text, p) ==
    IF p < Len(text) /\ is_identifier_char(text[p + 1])
    THEN identifier_end(text, p + 1)
    ELSE p

parse_identifier(text, p) ==
    MetaOk(identifier_end(text, p), Str(Slice(text, p, identifier_end(text, p))))

RECURSIVE quote_from(_, _)
quote_from(text, p) ==
    IF p < Len(text) /\ text[p + 1] # "\"" THEN quote_from(text, p + 1) ELSE p

parse_string_literal(text, p) ==
    IF peek_char(text, p) # "\"" THEN MetaPanic(p)
    ELSE LET q == quote_from(text, p + 1)
         IN  IF q >= Len(text) THEN MetaPanic(q)
             ELSE MetaOk(q + 1, Slice(text, p + 1, q))

\* the loop of MetaParser::parse_pattern: the position after the closing ']'
RECURSIVE pattern_end(_, _, _)
pattern_end(text, p, depth) ==
    IF depth = 0 THEN MetaOk(p, <<>>)
    ELSE IF p >= Len(text) THEN MetaPanic(p)
    ELSE pattern_end(text, p + 1,
                     IF text[p + 1] = "[" THEN depth + 1
                     ELSE IF text[p + 1] = "]" THEN depth - 1
                     ELSE depth)

\* MetaParser::parse_pattern
bracket_pattern(text, p) ==
    IF peek_char(text, p) # "[" THEN MetaPanic(p)
    ELSE LET r == pattern_end(text, p + 1, 1)
         IN  IF ~r.ok THEN r ELSE MetaOk(r.pos, Slice(text, p + 1, r.pos - 1))

\* a string literal that is taken as a regular expression
is_regex(lit) ==
    \/ starts_with(lit, <<"[">>)
    \/ Contains(lit, "+") \/ Contains(lit, "*") \/ Contains(lit, "\\")

\* the terminal or rule reference an identifier of an input grammar stands for
input_identifier(name) ==
    CASE name = "INDENT" -> Indent
      [] name = "DEDENT" -> Dedent
      [] name = "NEWLINE" -> Newline
      [] OTHER -> RuleRef(name)

RECURSIVE parse_input_expr(_, _)
RECURSIVE parse_input_sequence(_, _)
RECURSIVE parse_input_atom(_, _)
RECURSIVE input_items(_, _, _)
RECURSIVE input_choices(_, _, _)

\* the postfix operator after the atom base
input_postfix(text, base) ==
    With(skip_whitespace_and_comments(text, base.pos), LAMBDA q :
        With(peek_char(text, q), LAMBDA op :
            IF op = "*" THEN MetaOk(q + 1, ZeroOrMore(base.v))
            ELSE IF op = "+" THEN MetaOk(q + 1, OneOrMore(base.v))
            ELSE IF op = "?" THEN MetaOk(q + 1, Optional(base.v))
            ELSE MetaOk(q, base.v)))

\* the `match ch` of parse_input_atom
input_base(text, p, ch) ==
    IF ch = "" THEN MetaNone(p)
    ELSE IF ch = "\""
    THEN With(parse_string_literal(text, p), LAMBDA str :
             IF ~str.ok THEN str
             ELSE MetaOk(str.pos, IF is_regex(str.v) THEN Pattern(str.v)
                                  ELSE Literal(str.v)))
    ELSE IF ch = "["
    THEN With(bracket_pattern(text, p), LAMBDA pat :
             IF ~pat.ok THEN pat ELSE MetaOk(pat.pos, Pattern(pat.v)))
    ELSE IF ch = "("
    THEN With(parse_input_expr(text, skip_whitespace_and_comments(text, p + 1)),
              LAMBDA grp :
             IF ~grp.ok THEN grp
             ELSE With(expect_char(text, skip_whitespace_and_comments(text, grp.pos), ")"),
                       LAMBDA close :
                      IF ~close.ok THEN close
                      ELSE MetaOk(close.pos, Group(grp.v))))
    ELSE IF is_alphabetic(ch) \/ ch = "_"
    THEN With(parse_identifier(text, p), LAMBDA id :
             MetaOk(id.pos, input_identifier(id.v)))
    ELSE MetaNone(p)

parse_input_atom(text, p0) ==
    With(skip_whitespace_and_comments(text, p0), LAMBDA p :
        With(input_base(text, p, peek_char(text, p)), LAMBDA base :
            IF ~base.ok \/ ~base.some THEN base
            ELSE input_postfix(text, base)))

\* the loop of parse_input_sequence
input_items(text, p, items) ==
    With(parse_input_atom(text, skip_whitespace_and_comments(text, p)), LAMBDA r :
        IF ~r.ok THEN r
        ELSE IF ~r.some THEN MetaOk(r.pos, items)
        ELSE input_items(text, r.pos, Append(items, r.v)))

parse_input_sequence(text, p) ==
    With(input_items(text, p, <<>>), LAMBDA r :
        IF ~r.ok THEN r
        ELSE MetaOk(r.pos, IF Len(r.v) = 1 THEN r.v[1] ELSE Sequence(r.v)))

\* the loop of parse_input_expr
input_choices(text, p, choices) ==
    With(skip_whitespace_and_comments(text, p), LAMBDA q :
        IF peek_char(text, q) # "|" THEN MetaOk(q, choices)
        ELSE With(parse_input_sequence(text, skip_whitespace_and_comments(text, q + 1)),
                  LAMBDA r :
                 IF ~r.ok THEN r
                 ELSE input_choices(text, r.pos, Append(choices, r.v))))

parse_input_expr(text, p) ==
    With(parse_input_sequence(text, p), LAMBDA first :
        IF ~first.ok THEN first
        ELSE With(input_choices(text, first.pos, <<first.v>>), LAMBDA r :
                 IF ~r.ok THEN r
                 ELSE MetaOk(r.pos, IF Len(r.v) = 1 THEN r.v[1] ELSE Choice(r.v))))

\* a grammar returned, or the panic
Grammar(p, rules, start_rule) ==
    [returned |-> TRUE, pos |-> p, rules |-> rules, start_rule |-> start_rule]
Aborted(p) == [returned |-> FALSE, pos |-> p, rules |-> <<>>, start_rule |-> ""]

\* HashMap::insert
insert(rules, name, rule) == (name :> rule) @@ rules

\* a start rule that follows the rule read last
latest_rule(start_rule, name) == name

\* if start_rule.is_empty() { start_rule = name }
first_rule(start_rule, name) == IF start_rule = "" THEN name ELSE start_rule

\* one turn of the loop: a rule read (some), the end of the rules, or the
\* panic (~ok)
RuleResult(ok, some, p, name, expr) ==
    [ok |-> ok, some |-> some, pos |-> p, name |-> name, expr |-> expr]

\* one rule of an input grammar, from its name at q on
input_rule(text, q) ==
    With(parse_identifier(text, q), LAMBDA id :
        With(skip_whitespace_and_comments(text, id.pos), LAMBDA a :
            IF id.v = "" THEN RuleResult(TRUE, FALSE, q, "", <<>>)
            ELSE IF ~starts_with(Suffix(text, a), <<":", "=">>)
            THEN RuleResult(FALSE, FALSE, a, id.v, <<>>)
            ELSE With(parse_input_expr(text, skip_whitespace_and_comments(text, a + 2)),
                      LAMBDA expr :
                     IF ~expr.ok THEN RuleResult(FALSE, FALSE, expr.pos, id.v, <<>>)
                     ELSE With(expect_char(text, skip_whitespace_and_comments(text, expr.pos), ";"),
                               LAMBDA semi :
                              RuleResult(semi.ok, semi.ok, semi.pos, id.v, expr.v)))))

\* the loop of parse_input_grammar
RECURSIVE input_rules(_, _, _, _)
input_rules(text, p, rules, start_rule) ==
    IF p >= Len(text) THEN Grammar(p, rules, start_rule)
    ELSE With(skip_whitespace_and_comments(text, p), LAMBDA q :
             IF q >= Len(text) THEN Grammar(q, rules, start_rule)
             ELSE With(input_rule(text, q), LAMBDA r :
                      IF ~r.ok THEN Aborted(r.pos)
                      ELSE IF ~r.some THEN Grammar(q, rules, start_rule)
                      ELSE input_rules(text, r.pos,
                                       insert(rules, r.name, InputRule(r.name, r.expr)),
                                       first_rule(start_rule, r.name))))

parse_input_grammar(text) == input_rules(text, 0, <<>>, "")

\* no meta-parser has run
NotRun == [kind |-> "none"] @@ Aborted(0)

\* the text at p begins with the word kw
word_at(text, p, kw) == starts_with(Suffix(text, p), kw)

\* the text at p begins with kw and no identifier character follows it
keyword_at(text, p, kw) ==
    /\ word_at(text, p, kw)
    /\ ~is_identifier_char(peek_char(text, p + Len(kw)))

\* the test for `join` after an atom
join_follows(text, p) == word_at(text, p, <<"j", "o", "i", "n">>)

RECURSIVE parse_output_expr(_, _)
RECURSIVE parse_output_atom(_, _)
RECURSIVE output_items(_, _, _)
RECURSIVE parse_context_if_expr(_, _)
RECURSIVE branch_expr(_, _)

\* the `?` that may follow a group or a rule reference
output_postfix(text, base) ==
    With(skip_whitespace_and_comments(text, base.pos), LAMBDA q :
        IF peek_char(text, q) = "?" THEN MetaOk(q + 1, OutOptional(base.v))
        ELSE MetaOk(q, base.v))

\* an expression in parentheses, from the '(' at p to the ')'
RECURSIVE output_group(_, _)
output_group(text, p) ==
    With(parse_output_expr(text, skip_whitespace_and_comments(text, p + 1)),
         LAMBDA inner :
        IF ~inner.ok THEN inner
        ELSE With(expect_char(text, skip_whitespace_and_comments(text, inner.pos), ")"),
                  LAMBDA close :
                 IF ~close.ok THEN close ELSE MetaOk(close.pos, inner.v)))

parse_output_atom(text, p0) ==
    With(skip_whitespace_and_comments(text, p0), LAMBDA p :
        With(peek_char(text, p), LAMBDA ch :
            IF ch = "\""
            THEN With(parse_string_literal(text, p), LAMBDA lit :
                     IF ~lit.ok THEN lit ELSE MetaOk(lit.pos, OutLiteral(lit.v)))
            ELSE IF ch = "("
            THEN With(output_group(text, p), LAMBDA inner :
                     IF ~inner.ok THEN inner ELSE output_postfix(text, inner))
            ELSE IF is_alphabetic(ch) \/ ch = "_"
            THEN With(parse_identifier(text, p), LAMBDA name :
                     output_postfix(text, MetaOk(name.pos, OutRuleRef(name.v))))
            ELSE MetaNone(p)))

\* after an arm of parse_match_expr: the position after a ',' if one follows
after_arm(text, p) ==
    With(skip_whitespace_and_comments(text, p), LAMBDA c :
        IF peek_char(text, c) = "," THEN c + 1 ELSE c)

\* the arm `_ => ...` from the '_' at q: the default and the position after it
default_arm(text, q) ==
    With(skip_whitespace_and_comments(text, q + 1), LAMBDA a :
        IF ~word_at(text, a, <<"=", ">">>) THEN MetaPanic(a)
        ELSE With(skip_whitespace_and_comments(text, a + 2), LAMBDA b :
                 IF word_at(text, b, AtValue) THEN MetaOk(b + 6, AtValue)
                 ELSE parse_string_literal(text, b)))

\* the arm `"pattern" => "replacement"` from the quote at q
case_arm(text, q) ==
    With(parse_string_literal(text, q), LAMBDA pattern :
        IF ~pattern.ok THEN pattern
        ELSE With(skip_whitespace_and_comments(text, pattern.pos), LAMBDA a :
                 IF ~word_at(text, a, <<"=", ">">>) THEN MetaPanic(a)
                 ELSE With(parse_string_literal(text,
                               skip_whitespace_and_comments(text, a + 2)),
                           LAMBDA replacement :
                          IF ~replacement.ok THEN replacement
                          ELSE MetaOk(replacement.pos, <<pattern.v, replacement.v>>))))

\* the loop over the arms of parse_match_expr
RECURSIVE match_arms(_, _, _, _)
match_arms(text, p, cases, default) ==
    With(skip_whitespace_and_comments(text, p), LAMBDA q :
        With(peek_char(text, q), LAMBDA ch :
            IF ch = "}" THEN MetaOk(q + 1, Match(cases, default))
            ELSE IF ch = "_"
            THEN With(default_arm(text, q), LAMBDA d :
                     IF ~d.ok THEN d
                     ELSE match_arms(text, after_arm(text, d.pos), cases, d.v))
            ELSE IF ch = "\""
            THEN With(case_arm(text, q), LAMBDA c :
                     IF ~c.ok THEN c
                     ELSE match_arms(text, after_arm(text, c.pos),
                                     Append(cases, c.v), default))
            ELSE MetaOk(q, Match(cases, default))))

parse_match_expr(text, p) ==
    With(skip_whitespace_and_comments(text, p + 5), LAMBDA a :
        IF ~word_at(text, a, AtValue) THEN MetaPanic(a)
        ELSE With(expect_char(text, skip_whitespace_and_comments(text, a + 6), "{"),
                  LAMBDA open :
                 IF ~open.ok THEN open
                 ELSE match_arms(text, open.pos, <<>>, <<>>)))

\* the then / else expression: an expression in parentheses, or one atom
branch_expr(text, p) ==
    IF peek_char(text, p) = "(" THEN output_group(text, p)
    ELSE With(parse_output_atom(text, p), LAMBDA atom :
             IF ~atom.ok \/ ~atom.some THEN MetaPanic(atom.pos) ELSE atom)

\* `else` and the else expression, after the then expression
RECURSIVE else_branch(_, _, _)
else_branch(text, context_value, then_expr) ==
    With(skip_whitespace_and_comments(text, then_expr.pos), LAMBDA d :
        IF ~word_at(text, d, <<"e", "l", "s", "e">>) THEN MetaPanic(d)
        ELSE With(branch_expr(text, skip_whitespace_and_comments(text, d + 4)),
                  LAMBDA else_expr :
                 IF ~else_expr.ok THEN else_expr
                 ELSE MetaOk(else_expr.pos,
                             ContextIf(Str(context_value), then_expr.v, else_expr.v))))

\* `then` and the two expressions, after the context value
RECURSIVE then_branch(_, _)
then_branch(text, context_value) ==
    With(skip_whitespace_and_comments(text, context_value.pos), LAMBDA c :
        IF ~word_at(text, c, <<"t", "h", "e", "n">>) THEN MetaPanic(c)
        ELSE With(branch_expr(text, skip_whitespace_and_comments(text, c + 4)),
                  LAMBDA then_expr :
                 IF ~then_expr.ok THEN then_expr
                 ELSE else_branch(text, context_value.v, then_expr)))

parse_context_if_expr(text, p) ==
    With(skip_whitespace_and_comments(text, p + 2), LAMBDA a :
        IF ~word_at(text, a, <<"@", "c", "o", "n", "t", "e", "x", "t">>)
        THEN MetaPanic(a)
        ELSE With(skip_whitespace_and_comments(text, a + 8), LAMBDA b :
                 IF ~word_at(text, b, <<"=", "=">>) THEN MetaPanic(b)
                 ELSE With(parse_string_literal(text,
                               skip_whitespace_and_comments(text, b + 2)),
                           LAMBDA context_value :
                          IF ~context_value.ok THEN context_value
                          ELSE then_branch(text, context_value))))

\* `join` and its separator, after the atom item
join_item(text, q, item) ==
    With(parse_string_literal(text, skip_whitespace_and_comments(text, q + 4)),
         LAMBDA separator :
        IF ~separator.ok THEN separator
        ELSE IF item.t # "RuleRef" THEN MetaPanic(separator.pos)
        ELSE MetaOk(separator.pos, Join(item.name, separator.v)))

\* the loop of parse_output_expr
output_items(text, p, items) ==
    With(parse_output_atom(text, skip_whitespace_and_comments(text, p)), LAMBDA r :
        IF ~r.ok THEN r
        ELSE IF ~r.some THEN MetaOk(r.pos, items)
        ELSE With(skip_whitespace_and_comments(text, r.pos), LAMBDA q :
                 IF join_follows(text, q)
                 THEN With(join_item(text, q, r.v), LAMBDA j :
                          IF ~j.ok THEN j
                          ELSE output_items(text, j.pos, Append(items, j.v)))
                 ELSE output_items(text, q, Append(items, r.v))))

parse_output_expr(text, p0) ==
    With(skip_whitespace_and_comments(text, p0), LAMBDA p :
        IF keyword_at(text, p, <<"m", "a", "t", "c", "h">>)
        THEN parse_match_expr(text, p)
        ELSE IF keyword_at(text, p, <<"i", "f">>)
        THEN parse_context_if_expr(text, p)
        ELSE With(output_items(text, p, <<>>), LAMBDA r :
                 IF ~r.ok THEN r
                 ELSE MetaOk(r.pos, IF Len(r.v) = 1 THEN r.v[1]
                                    ELSE OutSequence(r.v))))

\* one rule of an output grammar, from its name at q on
output_rule(text, q) ==
    With(parse_identifier(text, q), LAMBDA id :
        With(skip_whitespace_and_comments(text, id.pos), LAMBDA a :
            IF id.v = "" THEN RuleResult(TRUE, FALSE, q, "", <<>>)
            ELSE IF ~starts_with(Suffix(text, a), <<":", "=">>)
            THEN RuleResult(FALSE, FALSE, a, id.v, <<>>)
            ELSE With(parse_output_expr(text, skip_whitespace_and_comments(text, a + 2)),
                      LAMBDA expr :
                     IF ~expr.ok THEN RuleResult(FALSE, FALSE, expr.pos, id.v, <<>>)
                     ELSE With(expect_char(text,
                                   skip_whitespace_and_comments(text, expr.pos), ";"),
                               LAMBDA semi :
                              RuleResult(semi.ok, semi.ok, semi.pos, id.v, expr.v)))))

\* the loop of parse_output_grammar
RECURSIVE output_rules(_, _, _)
output_rules(text, p, rules) ==
    IF p >= Len(text) THEN Grammar(p, rules, "")
    ELSE With(skip_whitespace_and_comments(text, p), LAMBDA q :
             IF q >= Len(text) THEN Grammar(q, rules, "")
             ELSE With(output_rule(text, q), LAMBDA r :
                      IF ~r.ok THEN Aborted(r.pos)
                      ELSE IF ~r.some THEN Grammar(q, rules, "")
                      ELSE output_rules(text, r.pos,
                                        insert(rules, r.name,
                                               OutputRule(r.name, r.expr)))))

parse_output_grammar(text) == output_rules(text, 0, <<>>)

---------------------------------------------------------------------------
(* The state machine: main() from Step 3 on, for one grammar pair and source *)

Init ==
    /\ \E i \in 1..Len(Cases) : \E src \in Cases[i].srcs :
          /\ grammar = Cases[i].g
          /\ out_grammar = Cases[i].og
          /\ input = src
    /\ pos = 0
    /\ furthest_pos = 0
    /\ furthest_expected = <<>>
    /\ furthest_rule = ""
    /\ indent_stack = <<0>>
    /\ pending_dedents = 0
    /\ at_line_start = TRUE
    /\ current_line_indent = 0
    /\ stack = <<>>
    /\ ret = NoRet
    /\ phase = "parse"
    /\ outcome = "none"
    /\ ast = ASTNode_new("")
    /\ error = NoError
    /\ output = Out(<<>>)
    /\ max_ok_pos = 0
    /\ bnf = <<>>
    /\ meta = NotRun

Next ==
    \/ ParseStart
    \/ ParseRuleCall
    \/ ParseRuleReturn
    \/ ParseLiteral
    \/ ParsePattern
    \/ ParseIndent
    \/ ParseDedent
    \/ ParseNewline
    \/ ParseSequenceEnter
    \/ ParseSequenceReturn
    \/ ParseChoiceEnter
    \/ ParseChoiceReturn
    \/ ParseZeroOrMoreEnter
    \/ ParseZeroOrMoreReturn
    \/ ParseOneOrMoreEnter
    \/ ParseOneOrMoreReturn
    \/ ParseOptionalEnter
    \/ ParseOptionalReturn
    \/ ParseGroupEnter
    \/ ParseGroupReturn
    \/ ParseFinish
    \/ Generate

Spec == Init /\ [][Next]_vars

\* a step of Parser::parse
ParserStep == phase \in {"parse", "run"} /\ Next

\* The parser is one thread: while parse() has not returned it takes its
\* next step.
FairSpec == Spec /\ WF_vars(ParserStep)

Done == phase = "done"

----------------------------------------------------------------------------
(* The state machine of main() Steps 1 and 2: a MetaParser is built on a  *)
(* grammar text and parse_input_grammar or parse_output_grammar runs to   *)
(* its return or to its panic.                                            *)

\* the characters of a string
Chars(s) == [i \in 1..Len(s) |-> SubSeq(s, i, i)]

\* rules whose body is rule references only: [text, name, refs]
PlainRule(text, name, refs) == [text |-> text, name |-> name, refs |-> refs]

PlainRules == {
    PlainRule("r := x joiner;\n", "r", <<"x", "joiner">>),
    PlainRule("p := matcher;\n", "p", <<"matcher">>),
    PlainRule("q := iffy;\n", "q", <<"iffy">>),
    PlainRule("w := x y;\n", "w", <<"x", "y">>) }

\* pieces of grammar text: rules of both grammars, well formed and not
Pieces ==
    {f.text : f \in PlainRules} \cup {
    "a := \"x\";\n",
    "b := a (\",\" a)*;\n",
    "a := \"y\"+ | b?;\n",
    "a := \"x\";\nb := a;\n",
    "s := NEWLINE INDENT a DEDENT;\n",
    "t := SAME_INDENT a;\n",
    "c := \"[a-z]+\" [0-9];\n",
    "// c\n",
    "? ",
    "a = \"x\";\n",
    "d := \"x\"\n",
    "l := x join \", \";\n",
    "m := match @value { \"int\" => \"i32\", _ => @value };\n",
    "k := if @context == \"a\" then x else (y \"z\");\n",
    "k := if @context == \"a\" thenx elsey;\n" }

\* the most pieces in one grammar text
MaxPieces == 2

RECURSIVE Concat(_)
Concat(ss) == IF Len(ss) = 0 THEN "" ELSE ss[1] \o Concat(Tail(ss))

GrammarTexts == {Chars(Concat(ss)) : ss \in Strings(Pieces, MaxPieces)}

MetaInit ==
    /\ bnf \in GrammarTexts
    /\ meta = NotRun
    /\ phase = "meta"
    /\ grammar = [start_rule |-> "", rules |-> <<>>]
    /\ out_grammar = <<>>
    /\ input = <<>>
    /\ pos = 0
    /\ furthest_pos = 0
    /\ furthest_expected = <<>>
    /\ furthest_rule = ""
    /\ indent_stack = <<0>>
    /\ pending_dedents = 0
    /\ at_line_start = TRUE
    /\ current_line_indent = 0
    /\ stack = <<>>
    /\ ret = NoRet
    /\ outcome = "none"
    /\ ast = ASTNode_new("")
    /\ error = NoError
    /\ output = Out(<<>>)
    /\ max_ok_pos = 0

\* MetaParser::new(bnf).parse_input_grammar()
MetaParseInput ==
    /\ phase = "meta"
    /\ meta' = [kind |-> "input"] @@ parse_input_grammar(bnf)
    /\ phase' = "meta_done"
    /\ UNCHANGED <<grammar, out_grammar, input, bnf, pos, furthest_pos,
                   furthest_expected, furthest_rule, indent_stack,
                   pending_dedents, at_line_start, current_line_indent, stack,
                   ret, outcome, ast, error, output, max_ok_pos>>

\* MetaParser::new(bnf).parse_output_grammar()
MetaParseOutput ==
    /\ phase = "meta"
    /\ meta' = [kind |-> "output"] @@ parse_output_grammar(bnf)
    /\ phase' = "meta_done"
    /\ UNCHANGED <<grammar, out_grammar, input, bnf, pos, furthest_pos,
                   furthest_expected, furthest_rule, indent_stack,
                   pending_dedents, at_line_start, current_line_indent, stack,
                   ret, outcome, ast, error, output, max_ok_pos>>

MetaNext == MetaParseInput \/ MetaParseOutput

MetaSpec == MetaInit /\ [][MetaNext]_vars

---------------------------------------------------------------------------
(* Properties *)

Caller == stack[Len(stack) - 1]

\* an activation has just been called by the one below it
JustCalled == phase = "run" /\ Len(stack) >= 2 /\ Top(stack).pc = "enter"

\* an activation of expression type t has just returned
Returned(t) == phase = "run" /\ ret.set /\ ret.t = t

\* C1: with the built-in grammar pair, `int my_func(int a, float b);` is
\* transpiled to exactly `fn my_func(a: i32, b: f64) -> i32;`.
C1_SignatureTranspiles ==
    (Done /\ input = SignatureSource)
        => (outcome = "ok" /\ ~output.overflow /\ output.text = SignatureOutput)

\* C2: when parse_choice is about to try its next alternative after one
\* failed, and when it returns None, the whole cursor (pos, indent_stack,
\* pending_dedents, at_line_start, current_line_indent) is the cursor at
\* entry to the Choice.
C2_ChoiceRestores ==
    /\ (JustCalled /\ Caller.e.t = "Choice" /\ Caller.i > 1)
          => Cursor = Caller.entry
    /\ (Returned("Choice") /\ ~ret.ok) => Cursor = ret.entry

\* C2, witness: the second alternative is about to be tried after the first
\* failed beyond a line break, that is after its Newline and Indent steps.
C2_Witness ==
    /\ JustCalled /\ Caller.e.t = "Choice" /\ Caller.i = 2
    /\ Cursor = Caller.entry
    /\ at_line_start /\ indent_stack = <<0>>
    /\ furthest_pos > pos + 2
    /\ \E p \in pos + 1 .. furthest_pos - 1 :
          input[p] = "\n" /\ input[p + 1] = " "

\* C3: ZeroOrMore and OneOrMore terminate on every input, also when the
\* repetition body can succeed without consuming input: with no left
\* recursion in the grammar, parse() returns in every run.
C3_RepetitionTerminates == <>(outcome # "none")

\* C4: whenever parse() returns Ok, indent_stack is [0] and pending_dedents 0.
C4_IndentWellFormed ==
    outcome = "ok" => (indent_stack = <<0>> /\ pending_dedents = 0)

\* C5: when the start rule succeeds and input remains after the trailing
\* white space, the error's expected set contains "end of input".
C5_TrailingExpectsEndOfInput ==
    outcome = "trailing" => Contains(error.expected, EndOfInput)

\* C6: whenever parse() returns an error, its position is at least the
\* position reached by every sub-expression that matched during the parse.
C6_FurthestPosition ==
    outcome \in {"failed", "trailing"} => error.position >= max_ok_pos

\* C7: a Literal or Pattern that matched, with the white space skipped
\* before it, has not moved the cursor across a '\n'.
C7_NoLineBreakCrossed ==
    ((Returned("Literal") \/ Returned("Pattern")) /\ ret.ok)
        => \A p \in ret.entry.pos + 1 .. pos : input[p] # "\n"

\* C8: a Pattern that matched has matched at the cursor reached after the
\* leading white space: the text it captured is the input from there to pos.
C8_PatternAnchored ==
    (Returned("Pattern") /\ ret.ok)
        => ret.node.value = Slice(input, skip_from(input, ret.entry.pos), pos)

\* the output rule the generator evaluates on the root of the AST
RootRule == out_grammar.rules[ast.name].expr
Generated(t) ==
    /\ Done /\ outcome = "ok"
    /\ ast.name \in DOMAIN out_grammar.rules
    /\ RootRule.t = t

\* `\n`, `\t`, `\r` escapes replaced, in one pass from the left
RECURSIVE Unescaped(_)
Unescaped(s) ==
    IF Len(s) >= 2 /\ s[1] = "\\" /\ s[2] \in {"n", "t", "r"}
    THEN <<CASE s[2] = "n" -> "\n" [] s[2] = "t" -> "\t" [] s[2] = "r" -> "\r">>
         \o Unescaped(SubSeq(s, 3, Len(s)))
    ELSE IF Len(s) = 0 THEN <<>>
    ELSE <<s[1]>> \o Unescaped(SubSeq(s, 2, Len(s)))

\* the offset of part i in parts joined by a separator of length n
RECURSIVE PartStart(_, _, _)
PartStart(parts, n, i) ==
    IF i = 1 THEN 0 ELSE PartStart(parts, n, i - 1) + Len(parts[i - 1]) + n

\* text is the parts in order with exactly one sep between neighbours
Joined(text, parts, sep) ==
    LET k == Len(parts)
        start(i) == PartStart(parts, Len(sep), i)
    IN  IF k = 0 THEN text = <<>>
        ELSE /\ Len(text) = start(k) + Len(parts[k])
             /\ \A i \in 1..k :
                   Slice(text, start(i), start(i) + Len(parts[i])) = parts[i]
             /\ \A i \in 1..(k - 1) :
                   Slice(text, start(i) + Len(parts[i]), start(i + 1)) = sep

\* the outputs of the children named rule, in their order in the node
ChildOutputs(node, rule, current_rule) ==
    [i \in 1..Len(get_children(node, rule)) |->
        generate_rule(out_grammar, FALSE, rule, get_children(node, rule)[i],
                      current_rule, 2).text]

\* the texts vals occur in src one after the other, from offset `from` on
RECURSIVE InSourceOrder(_, _, _)
InSourceOrder(vals, src, from) ==
    \/ Len(vals) = 0
    \/ \E p \in from..(Len(src) - Len(vals[1])) :
          /\ Slice(src, p, p + Len(vals[1])) = vals[1]
          /\ InSourceOrder(Tail(vals), src, p + Len(vals[1]))

ChildValues(node, rule) ==
    [i \in 1..Len(get_children(node, rule)) |-> get_children(node, rule)[i].value]

\* C9: Join{rule, sep} on a node with k children named rule emits their
\* outputs in source order with k-1 escape-expanded separators between them,
\* and the empty string when k = 0.
C9_JoinSeparators ==
    Generated("Join")
        => /\ Joined(output.text, ChildOutputs(ast, RootRule.rule, ast.name),
                     Unescaped(RootRule.separator))
           /\ InSourceOrder(ChildValues(ast, RootRule.rule), input, 0)

\* C9, witness: three children, two of them with different outputs, joined
\* by a separator with escapes.
C9_Witness ==
    /\ Generated("Join")
    /\ Len(get_children(ast, RootRule.rule)) = 3
    /\ RootRule.separator = <<"\\", "n", "\\", "t">>
    /\ input = <<"a", ",", "b", ",", "c">>
    /\ output.text = <<"a", "\n", "\t", "b", "\n", "\t", "c">>

\* the first case whose pattern equals value, or 0
FirstEqual(cases, value) ==
    IF \E i \in 1..Len(cases) : cases[i][1] = value
    THEN CHOOSE i \in 1..Len(cases) :
            /\ cases[i][1] = value
            /\ \A j \in 1..(i - 1) : cases[j][1] # value
    ELSE 0

\* what Match is to emit for value
MatchEmits(cases, default, value) ==
    IF FirstEqual(cases, value) > 0 THEN cases[FirstEqual(cases, value)][2]
    ELSE IF default = AtValue THEN value
    ELSE default

\* C10, as claimed: Match emits the replacement of the first equal case, else
\* the default (the value for @value); and with default # "" the output is
\* non-empty whenever the value is non-empty.
C10_MatchNeverEmpty ==
    Generated("Match")
        => /\ output.text = MatchEmits(RootRule.cases, RootRule.default, ast.value)
           /\ (RootRule.default # <<>> /\ ast.value # <<>>) => output.text # <<>>

\* C10, amended: ... and with default # "" the output is non-empty whenever
\* the value is non-empty and the first case equal to it, if there is one,
\* has a non-empty replacement.
C10_MatchFirstCase ==
    Generated("Match")
        => /\ output.text = MatchEmits(RootRule.cases, RootRule.default, ast.value)
           /\ ( /\ RootRule.default # <<>>
                /\ ast.value # <<>>
                /\ \A i \in 1..Len(RootRule.cases) :
                      i = FirstEqual(RootRule.cases, ast.value)
                          => RootRule.cases[i][2] # <<>> )
              => output.text # <<>>

\* C10, witness: two cases equal the value and the first one's replacement
\* is emitted, under a default that is not empty.
C10_Witness ==
    /\ Generated("Match")
    /\ ast.value = <<"a">>
    /\ Cardinality({i \in 1..Len(RootRule.cases) : RootRule.cases[i][1] = ast.value}) = 2
    /\ RootRule.default = <<"d">>
    /\ output.text = <<"x">>

\* the text ContextOutput is to give for an AST of ContextGrammar: an item
\* reads "Oo" under one, "M" under many and "T" under top
RECURSIVE Repeated(_, _, _)
Repeated(part, sep, k) ==
    IF k = 0 THEN <<>>
    ELSE IF k = 1 THEN part
    ELSE part \o sep \o Repeated(part, sep, k - 1)

ContextExpected(node) ==
    IF has_child(node, "one") THEN <<"<", "O", "o", ">">>
    ELSE IF has_child(node, "many")
    THEN Repeated(<<"M">>, <<",">>,
                  Len(get_children(get_child(node, "many"), "item")))
    ELSE IF has_child(node, "item") THEN <<"T">>
    ELSE <<>>

\* C11: a rule evaluated through a RuleRef or a Join inside rule p sees the
\* context p, the root rule sees the empty context, and Sequence, Optional
\* and ContextIf hand the context on unchanged: ContextIf emits its
\* then-branch exactly when the context equals its context_value.
C11_ContextIsInvoker ==
    /\ (Generated("Sequence") /\ ast.name = "top")
          => output.text = ContextExpected(ast)
    /\ Generated("ContextIf")
          => output.text = IF RootRule.context_value = "" THEN <<"T">> ELSE <<"E">>

\* C11, witness: items reached through a Join in `many` read "M", the
\* else-branch of the first ContextIf and the then-branch of the second.
C11_Witness ==
    /\ Generated("Sequence") /\ ast.name = "top"
    /\ has_child(ast, "many")
    /\ Len(get_children(get_child(ast, "many"), "item")) = 2
    /\ output.text = <<"M", ",", "M">>

\* the 1-based line of byte offset p: one more than the line breaks before it
LineOf(src, p) == 1 + Cardinality({i \in 1..p : src[i] = "\n"})

\* the 1-based column of byte offset p: one more than what stands between
\* the last line break before p and p, counted in characters or in bytes
ColumnsOf(src, p) ==
    LET breaks == {i \in 1..p : src[i] = "\n"}
        from == IF breaks = {} THEN 0 ELSE CHOOSE i \in breaks : \A j \in breaks : j <= i
    IN  {1 + Len(chars(SubSeq(src, from + 1, p))), 1 + (p - from)}

\* C16: the ParseError's position is the furthest position at which a
\* terminal failed, and its line and column are the 1-based line and column
\* of that position in the source (the column in characters or in bytes).
C16_ErrorLineColumn ==
    outcome \in {"failed", "trailing"} =>
        /\ error.position = furthest_pos
        /\ error.line = LineOf(input, error.position)
        /\ error.column \in ColumnsOf(input, error.position)

Terminals == {"Literal", "Pattern", "Indent", "Dedent", "Newline", "SameIndent"}

\* the step is a terminal that fails
TerminalFails ==
    /\ phase = "run" /\ Len(stack) > 0
    /\ Top(stack).pc = "enter" /\ Top(stack).e.t \in Terminals
    /\ ret'.set /\ ~ret'.ok

\* the step is the end of parse() with input left over
TrailingFails == phase = "run" /\ outcome' = "trailing"

\* the expectation the failing step records
FailureExpected ==
    IF TrailingFails THEN EndOfInput
    ELSE LET e == Top(stack).e
         IN  CASE e.t = "Literal" -> <<"\"">> \o e.s \o <<"\"">>
               [] e.t = "Pattern" ->
                     <<"p", "a", "t", "t", "e", "r", "n", " ", "/">>
                         \o e.pattern.src \o <<"/">>
               [] e.t = "Indent" -> <<"I", "N", "D", "E", "N", "T">>
               [] e.t = "Dedent" -> <<"D", "E", "D", "E", "N", "T">>
               [] e.t = "Newline" -> <<"N", "E", "W", "L", "I", "N", "E">>
               [] OTHER -> <<"S", "A", "M", "E", "_", "I", "N", "D", "E", "N", "T">>

NoDuplicates(s) == \A i, j \in DOMAIN s : s[i] = s[j] => i = j

\* C17: furthest_pos never decreases and no step but a failure changes the
\* record; furthest_expected has no duplicates; a failure at a greater
\* position leaves its entry alone in the set, a failure at furthest_pos adds
\* its entry if absent, a failure before furthest_pos changes nothing.  The
\* position of a failure is the cursor the failing step leaves.
C17_FurthestRecord ==
    [][ /\ furthest_pos' >= furthest_pos
        /\ NoDuplicates(furthest_expected')
        /\ IF TerminalFails \/ TrailingFails
           THEN /\ pos' > furthest_pos =>
                      /\ furthest_pos' = pos'
                      /\ furthest_expected' = <<FailureExpected>>
                /\ pos' = furthest_pos =>
                      /\ furthest_pos' = furthest_pos
                      /\ furthest_expected' =
                            IF Contains(furthest_expected, FailureExpected)
                            THEN furthest_expected
                            ELSE Append(furthest_expected, FailureExpected)
                /\ pos' < furthest_pos =>
                      UNCHANGED <<furthest_pos, furthest_expected>>
           ELSE UNCHANGED <<furthest_pos, furthest_expected>>
      ]_vars

\* a terminal has just failed before furthest_pos, where two expectations
\* were recorded, after failures had replaced and extended the set
C17_Witness ==
    /\ \E t \in Terminals : Returned(t)
    /\ ~ret.ok
    /\ pos < furthest_pos
    /\ Len(furthest_expected) >= 2

\* C18: when a Sequence fails at one of its items, pos, indent_stack,
\* pending_dedents, at_line_start and current_line_indent are what they were
\* at entry to the Sequence.
C18_SequenceRestores ==
    (Returned("Sequence") /\ ~ret.ok) => Cursor = ret.entry

\* a Sequence has failed at an item after a DEDENT that popped an indent
\* level and set pending_dedents
C18_Witness ==
    /\ Returned("Sequence") /\ ~ret.ok
    /\ Len(ret.from.indent_stack) < Len(ret.entry.indent_stack)
    /\ ret.from.pending_dedents > ret.entry.pending_dedents
    /\ Cursor = ret.entry

\* C19: when OneOrMore(e) fails because e fails on the first attempt, the
\* cursor state on return, pos included, is the state at entry to OneOrMore.
C19_OneOrMoreRestores ==
    (Returned("OneOrMore") /\ ~ret.ok) => Cursor = ret.entry

StrictlyIncreasing(s) == \A i, j \in DOMAIN s : i < j => s[i] < s[j]

\* C20: indent_stack always has 0 at its bottom and increases strictly from
\* bottom to top; Indent succeeds exactly when pending_dedents is 0 and
\* current_line_indent is above the top of the stack, and then it has pushed
\* current_line_indent, consumed the white space at the cursor and cleared
\* at_line_start.
C20_IndentStack ==
    /\ Len(indent_stack) >= 1
    /\ indent_stack[1] = 0
    /\ StrictlyIncreasing(indent_stack)
    /\ Returned("Indent") =>
          /\ ret.ok <=> /\ ret.entry.pending_dedents = 0
                        /\ ret.entry.current_line_indent > Top(ret.entry.indent_stack)
          /\ ret.ok =>
                /\ indent_stack =
                      Append(ret.entry.indent_stack, ret.entry.current_line_indent)
                /\ pos = skip_from(input, ret.entry.pos)
                /\ ~at_line_start

\* an Indent has succeeded inside an indented block and has consumed the
\* white space of the line
C20_Witness ==
    /\ Returned("Indent") /\ ret.ok
    /\ Len(indent_stack) >= 3
    /\ pos > ret.entry.pos
    /\ ret.entry.at_line_start

\* the number of stack levels above the indent of the current line
Above(c) ==
    Cardinality({i \in 1..Len(c.indent_stack) :
                    c.indent_stack[i] > c.current_line_indent})

\* what k Dedent calls in a row give from the cursor c; a call after a failed
\* one is not made
RECURSIVE dedent_run(_, _, _)
dedent_run(src, c, k) ==
    IF k = 0 THEN Some(c, ASTNode_new(""))
    ELSE LET r == dedent_run(src, c, k - 1)
         IN  IF r.ok THEN parse_dedent(src, r.c) ELSE r

\* C21: a Dedent called with pending_dedents = 0 and m >= 1 stack levels
\* above current_line_indent pops one level and sets pending_dedents to
\* m - 1; one called with pending_dedents > 0 pops one level and decrements
\* it; one called with pending_dedents = 0 and no level above fails and
\* leaves the cursor as it was.  From such a state m Dedent calls in a row
\* succeed, the k-th leaving m - k pending, and the next one fails; while
\* pending_dedents > 0 an Indent fails.
C21_DedentRun ==
    /\ Returned("Dedent") =>
          LET e == ret.entry
              m == Above(e)
          IN  /\ (e.pending_dedents = 0 /\ m >= 1) =>
                    /\ ret.ok
                    /\ Cursor = [e EXCEPT !.indent_stack = pop(@),
                                          !.pending_dedents = m - 1]
              /\ e.pending_dedents > 0 =>
                    /\ ret.ok
                    /\ Cursor = [e EXCEPT !.indent_stack = pop(@),
                                          !.pending_dedents = @ - 1]
              /\ (e.pending_dedents = 0 /\ m = 0) =>
                    (~ret.ok /\ Cursor = e)
    /\ (Returned("Indent") /\ ret.entry.pending_dedents > 0) => ~ret.ok
    /\ (phase = "run" /\ pending_dedents = 0 /\ Above(Cursor) >= 1) =>
          LET m == Above(Cursor)
              after == dedent_run(input, Cursor, m)
              further == parse_dedent(input, after.c)
          IN  /\ \A k \in 1..m :
                    LET r == dedent_run(input, Cursor, k)
                    IN  /\ r.ok
                        /\ r.c = [Cursor EXCEPT
                                    !.indent_stack = SubSeq(@, 1, Len(@) - k),
                                    !.pending_dedents = m - k]
                        /\ k < m => ~parse_indent(input, r.c).ok
              /\ after.c.pending_dedents = 0
              /\ last(after.c.indent_stack) <= current_line_indent
              /\ ~further.ok
              /\ further.c = after.c

\* the fourth Dedent of the block rule has failed and left the cursor as it
\* was, after the three before it popped the three levels of the blocks
C21_Witness ==
    /\ Returned("Dedent") /\ ~ret.ok
    /\ Cursor = ret.entry
    /\ Len(stack) >= 2
    /\ Caller.e.t = "Sequence" /\ Len(Caller.e.items) = 13 /\ Caller.i = 12
    /\ indent_stack = <<0>>
    /\ pending_dedents = 0

\* ' ', '\t' and '\r'
Horizontal == {" ", "\t", "\r"}

\* the line that starts at offset p is blank: white space up to a line break
BlankLineAt(src, p) ==
    \E k \in p + 1 .. Len(src) :
        /\ src[k] = "\n"
        /\ \A i \in p + 1 .. k - 1 : src[i] \in Horizontal

\* the spaces and tabs that stand at offset p
LeadingBlanks(src, p) ==
    LET n == CHOOSE n \in 0 .. Len(src) - p :
                 /\ \A i \in 1..n : src[p + i] \in {" ", "\t"}
                 /\ n < Len(src) - p => src[p + n + 1] \notin {" ", "\t"}
    IN  SubSeq(src, p + 1, p + n)

\* the column after the blanks ws: a space adds 1, a tab goes to the next
\* multiple of TabWidth
RECURSIVE WidthOf(_)
WidthOf(ws) ==
    IF Len(ws) = 0 THEN 0
    ELSE LET w == WidthOf(SubSeq(ws, 1, Len(ws) - 1))
         IN  IF ws[Len(ws)] = " " THEN w + 1
             ELSE w + (TabWidth - (w % TabWidth))

\* C22: a Newline that succeeded has consumed the horizontal white space at
\* the cursor, one line break and the blank lines after it: the cursor is at
\* the start of a line that is not blank (or of what remains of the text),
\* before its leading white space; at_line_start is true,
\* current_line_indent is the width of the spaces and tabs at the cursor, and
\* the indent stack and pending_dedents are as before.
C22_NewlineLands ==
    (Returned("Newline") /\ ret.ok) =>
        LET e == ret.entry
            breaks == {i \in e.pos + 1 .. Len(input) : input[i] = "\n"}
        IN  /\ breaks # {}
            /\ LET j == Least(breaks)
               IN  /\ \A i \in e.pos + 1 .. j - 1 : input[i] \in Horizontal
                   /\ pos >= j
                   /\ input[pos] = "\n"
                   /\ \A i \in j .. pos : input[i] \in Horizontal \cup {"\n"}
            /\ ~BlankLineAt(input, pos)
            /\ at_line_start
            /\ current_line_indent = WidthOf(LeadingBlanks(input, pos))
            /\ indent_stack = e.indent_stack
            /\ pending_dedents = e.pending_dedents

\* a Newline has consumed trailing white space, its line break and a blank
\* line, and stands before a line indented by a space and a tab
C22_Witness ==
    /\ Returned("Newline") /\ ret.ok
    /\ input[ret.entry.pos + 1] \in Horizontal
    /\ \E i \in ret.entry.pos + 1 .. pos - 1 : input[i] = "\n"
    /\ LeadingBlanks(input, pos) = <<" ", "\t">>
    /\ current_line_indent = TabWidth

\* C23: when the body of parse_rule(r) returns Some(node), parse_rule returns
\* Some of a node named r, and if node has no children and an empty value the
\* value is the input from the position at entry to the rule to the position
\* at its return; when the body returns None, or r has no rule, parse_rule
\* returns None with pos as it was at entry.
C23_RuleNode ==
    [][ (phase = "run" /\ Len(stack) > 0 /\ Top(stack).e.t = "RuleRef"
            /\ ret'.set) =>
            LET f == Top(stack)
            IN  IF f.pc = "wait" /\ ret.ok
                THEN /\ ret'.ok
                     /\ ret'.node.name = f.e.name
                     /\ (DOMAIN ret.node.children = {} /\ ret.node.value = <<>>)
                           => ret'.node.value = Slice(input, f.entry.pos, pos')
                ELSE /\ ~ret'.ok
                     /\ pos' = f.entry.pos
      ]_vars

\* the rule `type` has matched its literal after a blank: its body gave no
\* child and no value, and its value is the input from the blank on
C23_Witness ==
    /\ Returned("RuleRef") /\ ret.ok
    /\ ret.node.name = "type"
    /\ DOMAIN ret.node.children = {}
    /\ pos > ret.entry.pos + 1
    /\ input[ret.entry.pos + 1] = " "
    /\ ret.node.value = Slice(input, ret.entry.pos, pos)

\* the indentation fields of a cursor
IndentFields(c) ==
    <<c.indent_stack, c.pending_dedents, c.at_line_start, c.current_line_indent>>

\* C24: whenever a parse_expr or parse_rule activation has returned None,
\* indent_stack, pending_dedents, at_line_start and current_line_indent are
\* what they were when it was called.
C24_FailureKeepsIndentation ==
    (phase = "run" /\ ret.set /\ ~ret.ok) =>
        IndentFields(Cursor) = IndentFields(ret.entry)

\* the start rule of a block grammar has failed where a DEDENT was expected,
\* that is after its NEWLINE and INDENT had succeeded; parse_rule puts back
\* pos only, and the indentation fields are those of the call
C24_Witness ==
    /\ Returned("RuleRef") /\ ~ret.ok
    /\ stack = <<>>
    /\ Contains(furthest_expected, <<"D", "E", "D", "E", "N", "T">>)
    /\ furthest_pos > 6
    /\ IndentFields(Cursor) = IndentFields(NewCursor)

\* C25: in every state of the parser pending_dedents is at most
\* len(indent_stack) - 1: the Dedents still pending never reach the base
\* level, which stays on the stack.
C25_PendingBelowBase ==
    /\ Len(indent_stack) >= 1
    /\ pending_dedents >= 0
    /\ pending_dedents <= Len(indent_stack) - 1
    /\ indent_stack[1] = 0

\* a Dedent has popped the innermost of three blocks and every level that
\* is left above the base is pending
C25_Witness ==
    /\ Returned("Dedent") /\ ret.ok
    /\ ret.entry.pending_dedents = 0
    /\ Len(indent_stack) = 3
    /\ pending_dedents = Len(indent_stack) - 1

\* C26: generate returns for every AST and output grammar: no chain of
\* generate_rule calls nested in one another is longer than MaxGenDepth.
\* (For the one-node ASTs of the leaf grammar a longer chain repeats a call
\* with the same rule, node and context, and so never ends.)
C26_GenerateTerminates ==
    (Done /\ outcome = "ok") => ~output.overflow

----------------------------------------------------------------------------
(* Properties of the meta-parser, under MetaSpec *)

InputParsed == phase = "meta_done" /\ meta.kind = "input"
OutputParsed == phase = "meta_done" /\ meta.kind = "output"

\* the text made of the rules fs, in order
TextOf(fs) == Chars(Concat([i \in DOMAIN fs |-> fs[i].text]))

\* a rule body that is the rule references refs
RefsExpr(refs) ==
    IF Len(refs) = 1 THEN OutRuleRef(refs[1])
    ELSE OutSequence([i \in DOMAIN refs |-> OutRuleRef(refs[i])])

\* C12: in an output grammar an identifier that merely begins with a keyword
\* is an ordinary rule reference: a text made of rules whose bodies are
\* identifiers only (`x joiner`, `matcher`, `iffy`, `x y`) is parsed, and
\* each rule is the sequence of the rule references of its body.
C12_KeywordsNeedBoundary ==
    \A fs \in Strings(PlainRules, MaxPieces) :
        (OutputParsed /\ bnf = TextOf(fs)) =>
            /\ meta.returned
            /\ \A i \in DOMAIN fs :
                  /\ fs[i].name \in DOMAIN meta.rules
                  /\ meta.rules[fs[i].name] =
                         OutputRule(fs[i].name, RefsExpr(fs[i].refs))

\* C13: parse_input_grammar and parse_output_grammar return a grammar only
\* for a text that is wholly a sequence of rules: when one returns, the
\* MetaParser has read the text to its end.
C13_ReturnsOnlyWholeText ==
    (phase = "meta_done" /\ meta.returned) => meta.pos >= Len(bnf)

\* the terminals and rule references of an input expression
RECURSIVE Atoms(_)
Atoms(e) ==
    IF e.t \in {"Sequence", "Choice"}
    THEN UNION {Atoms(e.items[i]) : i \in DOMAIN e.items}
    ELSE IF e.t \in {"ZeroOrMore", "OneOrMore", "Optional", "Group"}
    THEN Atoms(e.inner)
    ELSE {e}

\* C14: SAME_INDENT in an input grammar compiles to the SameIndent terminal
\* as INDENT, DEDENT and NEWLINE compile to theirs: no rule of a grammar
\* returned by parse_input_grammar holds a rule reference of one of these
\* four names.
C14_SameIndentTerminal ==
    (InputParsed /\ meta.returned) =>
        \A r \in DOMAIN meta.rules :
            \A name \in {"INDENT", "DEDENT", "NEWLINE", "SAME_INDENT"} :
                RuleRef(name) \notin Atoms(meta.rules[r].expr)

\* the offsets below upto where a `:=` stands
Definitions(text, upto) ==
    {i \in 0..(upto - 1) : word_at(text, i, <<":", "=">>)}

RECURSIVE BackOverSpaces(_, _)
BackOverSpaces(text, p) ==
    IF p > 0 /\ is_whitespace(text[p]) THEN BackOverSpaces(text, p - 1) ELSE p

RECURSIVE BackOverName(_, _)
BackOverName(text, p) ==
    IF p > 0 /\ is_identifier_char(text[p]) THEN BackOverName(text, p - 1) ELSE p

\* the identifier that stands before the `:=` at offset i
NameBefore(text, i) ==
    LET e == BackOverSpaces(text, i)
    IN  Str(Slice(text, BackOverName(text, e), e))

\* C15: the grammar parse_input_grammar returns has an entry for every rule
\* defined in the text it read, each under the rule's name and holding that
\* name, and its start_rule is the name of the textually first rule, also
\* when a later rule defines a name again.
C15_RulesAndStart ==
    (InputParsed /\ meta.returned) =>
        LET defs == Definitions(bnf, meta.pos)
        IN  /\ DOMAIN meta.rules = {NameBefore(bnf, i) : i \in defs}
            /\ \A r \in DOMAIN meta.rules : meta.rules[r].name = r
            /\ meta.start_rule =
                   IF defs = {} THEN "" ELSE NameBefore(bnf, Least(defs))

\* a wholly read text whose first rule is defined again after a rule of
\* another name, and whose last rule is not the first
C15_Witness ==
    /\ InputParsed
    /\ meta.returned
    /\ meta.pos >= Len(bnf)
    /\ \E i, j, k \in Definitions(bnf, Len(bnf)) :
          /\ i = Least(Definitions(bnf, Len(bnf)))
          /\ i < j /\ j < k
          /\ NameBefore(bnf, j) # NameBefore(bnf, i)
          /\ NameBefore(bnf, k) = NameBefore(bnf, i)
          /\ \E l \in Definitions(bnf, Len(bnf)) :
                l > k /\ NameBefore(bnf, l) # NameBefore(bnf, i)
    /\ meta.start_rule = NameBefore(bnf, Least(Definitions(bnf, Len(bnf))))

====
